---- MODULE Spec2Model ----
(***************************************************************************)
(* OzzServe booking core: the booking state engine (logic/bookings.ts),    *)
(* the payment-intent ledger (logic/payments.ts), the webhook idempotency  *)
(* ledger and the HTTP handlers of app.ts that drive them, over a          *)
(* PostgreSQL store at READ COMMITTED.                                     *)
(*                                                                         *)
(* A request is a process that executes its handler statement by          *)
(* statement. Writes made through a transaction's client are buffered in  *)
(* the request and reach the committed tables at COMMIT; a statement that *)
(* needs a row locked by another transaction is not enabled until that    *)
(* transaction ends.                                                      *)
(***************************************************************************)
EXTENDS Integers, Sequences, FiniteSets, TLC

(***************************************************************************)
(* Bounds of the model.                                                    *)
(***************************************************************************)
NumAccepters == 4
MaxEvents == 9
MaxIntents == 2
MaxTicks == 1
MaxDeliveries == 3
NumRequests == 2

(***************************************************************************)
(* Program constants.                                                      *)
(***************************************************************************)
GraceMinutes == 30
SweepAgeMinutes == 1440
FeeCents == 1000
DefaultAmountCents == 10000

(***************************************************************************)
(* Value spaces.                                                           *)
(***************************************************************************)
BookingIds == {"b1"}
Customers == {"u1", "u2"}
ProviderSeq == <<"p1", "p2", "p3", "p4", "p5">>
Providers == {ProviderSeq[i] : i \in 1..Len(ProviderSeq)}
Admins == {"a1"}
None == "none"
NoOtp == "no_otp"
Otps == {"1234", "5678"}

BookingState == {"PENDING_PAYMENT", "PAID_SEARCHING", "ACCEPTED", "EN_ROUTE",
                 "ARRIVED", "IN_PROGRESS", "COMPLETE_PENDING", "CLOSED",
                 "CANCELLED", "EXPIRED", "NEEDS_REVIEW"}
UserRole == {"User", "System", "Provider", "Admin"}

Tr(to, who) == [to |-> to, who |-> who]

allowedTransitions(from) ==
    CASE from = "NULL" -> {Tr("PENDING_PAYMENT", "User")}
      [] from = "PENDING_PAYMENT" ->
            {Tr("PAID_SEARCHING", "System"), Tr("CANCELLED", "User"),
             Tr("EXPIRED", "System")}
      [] from = "PAID_SEARCHING" ->
            {Tr("ACCEPTED", "Provider"), Tr("EXPIRED", "System"),
             Tr("CANCELLED", "User")}
      [] from = "ACCEPTED" ->
            {Tr("EN_ROUTE", "Provider"), Tr("CANCELLED", "User"),
             Tr("CANCELLED", "Provider"), Tr("PAID_SEARCHING", "Provider")}
      [] from = "EN_ROUTE" ->
            {Tr("ARRIVED", "Provider"), Tr("CANCELLED", "User"),
             Tr("CANCELLED", "Provider"), Tr("PAID_SEARCHING", "Provider")}
      [] from = "ARRIVED" ->
            {Tr("IN_PROGRESS", "Provider"), Tr("CANCELLED", "User"),
             Tr("CANCELLED", "Provider")}
      [] from = "IN_PROGRESS" -> {Tr("COMPLETE_PENDING", "Provider")}
      [] from = "COMPLETE_PENDING" ->
            {Tr("CLOSED", "System"), Tr("NEEDS_REVIEW", "User")}
      [] from = "NEEDS_REVIEW" ->
            {Tr("CLOSED", "Admin"), Tr("CANCELLED", "Admin")}
      [] OTHER -> {}

isValidTransition_AnyRole(from, to, role) ==
    \E t \in allowedTransitions(from) : t.to = to

isValidTransition(from, to, role) ==
    \E t \in allowedTransitions(from) : t.to = to /\ t.who = role

(***************************************************************************)
(* State: the committed tables, the clock and the requests in flight.      *)
(***************************************************************************)
\* The webhook events the provider sends (app.ts:458-475): evt_1 reports that the
\* intent with reference 1 was authorized, evt_2 is of a type without side effect.
WebhookEvents ==
    {[id |-> "evt_1", type |-> "payment_intent.succeeded", reference |-> 1],
     [id |-> "evt_2", type |-> "ping", reference |-> 0]}

EventIds == {e.id : e \in WebhookEvents}

EventOf(id) == CHOOSE e \in WebhookEvents : e.id = id

VARIABLES
    bookings,    \* bookings table: booking id -> row (status "NULL": no row)
    intents,     \* payment_intents table: sequence of rows, the index is provider_ref
    events,      \* booking_events table, in insertion order
    outbox,      \* notification_outbox table, in insertion order
    ledger,      \* webhook_events table: event id -> status (None: no row)
    now,         \* the clock, in minutes
    config,      \* config.ts: stripe |-> whether config.stripe.secretKey is set
    req,         \* the requests: request id -> its position, locals and open transactions
    hist         \* what the requests did: handler invocations and the last committed status change

vars == <<bookings, intents, events, outbox, ledger, now, config, req, hist>>

NoBooking ==
    [status |-> "NULL", customer_id |-> None, provider_id |-> None,
     candidate_list |-> {}, otp |-> NoOtp, created_at |-> 0, updated_at |-> 0,
     complete_pending_until |-> -1, stripe_payment_intent_id |-> 0,
     service_name_snapshot |-> None, price_snapshot_cents |-> -1]

\* A request that is not executing a handler.
IdleReq ==
    [pc |-> "idle", op |-> None, b |-> None, role |-> None, actor |-> None,
     from |-> None, to |-> None, otp |-> NoOtp, ref |-> 0, evt |-> None,
     res |-> None,
     lk |-> FALSE,        \* holds the row lock of booking b
     wbk |-> NoBooking,   \* uncommitted version of booking b (status "NULL": none)
     wint |-> {},         \* uncommitted payment_intents updates: {[ref, status]}
     wins |-> <<>>,       \* uncommitted payment_intents inserts
     wev |-> <<>>,        \* uncommitted booking_events inserts
     wob |-> <<>>,        \* uncommitted notification_outbox inserts
     wled |-> None,       \* uncommitted webhook_events status of evt
     llk |-> FALSE,       \* holds the row lock of webhook_events row evt
     after |-> FALSE,     \* the delivery started after evt was committed PROCESSED
     ran |-> None]        \* the delivery's handler: None (not invoked), "invoked", "ok", "error"

Reqs == DOMAIN req

\* The history before anything happened.
NoChange == [b |-> None, from |-> None, to |-> None, role |-> None, op |-> None]
NoHist == [change |-> [b \in BookingIds |-> NoChange], processed |-> {}]

Event(b, type, role, actor, from, to) ==
    [booking_id |-> b, type |-> type, actor_role |-> role, actor_id |-> actor,
     from |-> from, to |-> to]

Notice(b, recipient, type) ==
    [booking_id |-> b, recipient_uid |-> recipient, type |-> type]

\* Lower-case of a status name, as used in the event type transition_<status>.
TransitionEvent(to) == <<"transition", to>>

(***************************************************************************)
(* Row locks.                                                              *)
(***************************************************************************)
BookingLockedByOther(p, b) ==
    \E q \in Reqs \ {p} : req[q].lk /\ req[q].b = b

IntentLockedByOther(p, ref) ==
    \E q \in Reqs \ {p} : \E w \in req[q].wint : w.ref = ref

\* The version of booking b that a statement of request p's transaction sees.
BookingSeenBy(p, b) ==
    IF req[p].b = b /\ req[p].wbk.status # "NULL" THEN req[p].wbk ELSE bookings[b]

\* The status of intent ref that a statement of request p's transaction sees.
IntentStatusSeenBy(p, ref) ==
    IF \E w \in req[p].wint : w.ref = ref
    THEN (CHOOSE w \in req[p].wint : w.ref = ref).status
    ELSE intents[ref].status

(***************************************************************************)
(* withTx (db.ts): COMMIT when the callback returns, whatever it returns;  *)
(* ROLLBACK when it throws. COMMIT publishes the transaction's writes and  *)
(* releases its row locks; ROLLBACK only releases them.                    *)
(***************************************************************************)
ApplyIntentWrites(p) ==
    [r \in 1..Len(intents) |->
        IF \E w \in req[p].wint : w.ref = r
        THEN [intents[r] EXCEPT !.status = (CHOOSE w \in req[p].wint : w.ref = r).status]
        ELSE intents[r]] \o req[p].wins

\* The committed status change a COMMIT of request p makes, for the history.
ChangeOf(p) ==
    IF req[p].wbk.status # "NULL" /\ req[p].wbk.status # bookings[req[p].b].status
    THEN [hist.change EXCEPT ![req[p].b] =
            [b |-> req[p].b, from |-> bookings[req[p].b].status,
             to |-> req[p].wbk.status, role |-> req[p].role, op |-> req[p].op]]
    ELSE hist.change

\* The request once its call has returned: it keeps the result for the caller to
\* read, or is ready for the next call. A callback that returns an error before
\* it has written anything returns at once: its COMMIT publishes nothing.
Returned(r, keep) ==
    IF keep THEN [IdleReq EXCEPT !.pc = "done", !.op = r.op, !.b = r.b,
                                 !.role = r.role, !.actor = r.actor,
                                 !.from = r.from, !.to = r.to, !.otp = r.otp,
                                 !.res = r.res]
    ELSE IdleReq

AfterReturn(p, keep) == Returned(req[p], keep)

\* COMMIT of the transaction of a booking-engine operation, and return.
TxCommit(p, keep) ==
    /\ req[p].pc = "commit"
    /\ bookings' = IF req[p].wbk.status # "NULL"
                   THEN [bookings EXCEPT ![req[p].b] = req[p].wbk] ELSE bookings
    /\ intents' = ApplyIntentWrites(p)
    /\ events' = events \o req[p].wev
    /\ outbox' = outbox \o req[p].wob
    /\ hist' = [hist EXCEPT !.change = ChangeOf(p)]
    /\ req' = [req EXCEPT ![p] = AfterReturn(p, keep)]
    /\ UNCHANGED <<ledger, now, config>>

(***************************************************************************)
(* updateBookingStatus (bookings.ts:83-163).                               *)
(***************************************************************************)
\* Mutant: step 2b, the OTP verification, is missing.
UbsCheck_NoOtp(row, nextStatus, role, actorId, otp) ==
    IF row.status = "NULL" THEN "Booking not found"
    ELSE IF ~isValidTransition(row.status, nextStatus, role) THEN "Invalid transition"
    ELSE IF role = "Provider" /\ actorId = None THEN "Provider ID required"
    ELSE IF role = "Provider" /\ row.provider_id # None /\ row.provider_id # actorId
         THEN "Booking claimed by another provider"
    ELSE IF role = "Provider" /\ row.provider_id = None
            /\ actorId \notin row.candidate_list
         THEN "Provider is not in the candidate list for this booking"
    ELSE "ok"

\* Mutant: step 3 does not look at the candidate list.
UbsCheck_NoCandidates(row, nextStatus, role, actorId, otp) ==
    IF row.status = "NULL" THEN "Booking not found"
    ELSE IF ~isValidTransition(row.status, nextStatus, role) THEN "Invalid transition"
    ELSE IF nextStatus = "IN_PROGRESS" /\ row.status = "ARRIVED"
            /\ (otp = NoOtp \/ otp # row.otp) THEN "Invalid or missing OTP"
    ELSE IF role = "Provider" /\ actorId = None THEN "Provider ID required"
    ELSE IF role = "Provider" /\ row.provider_id # None /\ row.provider_id # actorId
         THEN "Booking claimed by another provider"
    ELSE "ok"

\* Steps 1-3: the checks made on the row read under the lock. "ok" or the error.
UbsCheck(row, nextStatus, role, actorId, otp) ==
    IF row.status = "NULL" THEN "Booking not found"
    ELSE IF ~isValidTransition(row.status, nextStatus, role) THEN "Invalid transition"
    ELSE IF nextStatus = "IN_PROGRESS" /\ row.status = "ARRIVED"
            /\ (otp = NoOtp \/ otp # row.otp) THEN "Invalid or missing OTP"
    ELSE IF role = "Provider" /\ actorId = None THEN "Provider ID required"
    ELSE IF role = "Provider" /\ row.provider_id # None /\ row.provider_id # actorId
         THEN "Booking claimed by another provider"
    ELSE IF role = "Provider" /\ row.provider_id = None
            /\ actorId \notin row.candidate_list
         THEN "Provider is not in the candidate list for this booking"
    ELSE "ok"

\* Mutant: the UPDATE sets provider_id = $2 without the COALESCE.
UbsRow_Overwrite(row, nextStatus, role, actorId, t) ==
    [row EXCEPT
        !.status = nextStatus,
        !.updated_at = t,
        !.provider_id = IF role = "Provider" THEN actorId ELSE None,
        !.complete_pending_until =
            IF nextStatus = "COMPLETE_PENDING" THEN t + GraceMinutes
            ELSE row.complete_pending_until]

\* Mutant: the UPDATE clears the otp once it has been verified.
UbsRow_ClearsTheOtp(row, nextStatus, role, actorId, t) ==
    [row EXCEPT
        !.status = nextStatus,
        !.updated_at = t,
        !.otp = IF nextStatus = "IN_PROGRESS" THEN NoOtp ELSE row.otp,
        !.provider_id = IF row.provider_id # None THEN row.provider_id
                        ELSE IF role = "Provider" THEN actorId ELSE None,
        !.complete_pending_until =
            IF nextStatus = "COMPLETE_PENDING" THEN t + GraceMinutes
            ELSE row.complete_pending_until]

\* Mutant: the UPDATE sets complete_pending_until without the CASE.
UbsRow_StampsEveryTransition(row, nextStatus, role, actorId, t) ==
    [row EXCEPT
        !.status = nextStatus,
        !.updated_at = t,
        !.provider_id = IF row.provider_id # None THEN row.provider_id
                        ELSE IF role = "Provider" THEN actorId ELSE None,
        !.complete_pending_until = t + GraceMinutes]

\* Step 4: the row the UPDATE writes.
UbsRow(row, nextStatus, role, actorId, t) ==
    [row EXCEPT
        !.status = nextStatus,
        !.updated_at = t,
        !.provider_id = IF row.provider_id # None THEN row.provider_id
                        ELSE IF role = "Provider" THEN actorId ELSE None,
        !.complete_pending_until =
            IF nextStatus = "COMPLETE_PENDING" THEN t + GraceMinutes
            ELSE row.complete_pending_until]

\* Mutant: the WHERE clause binds the new status ($1) where it means the old one ($4).
UbsGuardStatus_NewStatus(currentStatus, nextStatus) == nextStatus

\* Step 4: the status the UPDATE's WHERE clause demands of the row.
UbsGuardStatus(currentStatus, nextStatus) == currentStatus

\* Step 1: SELECT ... FOR UPDATE waits for the row lock and takes it.
UbsLockFree(p, b) == ~BookingLockedByOther(p, b)

\* Steps 1-3 on the row read under the lock: request r with the call's arguments,
\* the outcome of the checks and the statement it goes to next.
UbsPlan(r, b, row, nextStatus, role, actorId, otp, pcOk, pcErr) ==
    LET err == UbsCheck(row, nextStatus, role, actorId, otp)
    IN [r EXCEPT !.b = b, !.role = role, !.actor = actorId,
                 !.from = row.status, !.to = nextStatus, !.otp = otp,
                 !.lk = row.status # "NULL", !.res = err,
                 !.pc = IF err = "ok" THEN pcOk ELSE pcErr]

\* Steps 4-5 on the row version the UPDATE finds: the row and the event written
\* in the transaction, or the status drift error.
UbsWrite(r, row, t, pcNext) ==
    IF row.status = UbsGuardStatus(r.from, r.to)
    THEN [r EXCEPT
            !.lk = TRUE,
            !.wbk = UbsRow(row, r.to, r.role, r.actor, t),
            !.wev = Append(@, Event(r.b, TransitionEvent(r.to), r.role, r.actor,
                                    r.from, r.to)),
            !.res = "ok", !.pc = pcNext]
    ELSE [r EXCEPT !.res = "Atomic update failed (status drift)", !.pc = pcNext]

\* A call on a fresh transaction: lock and read the row, check.
UbsSelect(p, b, nextStatus, role, actorId, otp, keep) ==
    /\ req[p].pc = "idle"
    /\ UbsLockFree(p, b)
    /\ LET r == UbsPlan([IdleReq EXCEPT !.op = "updateBookingStatus"], b, bookings[b],
                        nextStatus, role, actorId, otp, "ubs_update", "commit")
       IN req' = [req EXCEPT ![p] = IF r.res = "ok" THEN r ELSE Returned(r, keep)]
    /\ UNCHANGED <<bookings, intents, events, outbox, ledger, now, config, hist>>

\* The conditional UPDATE and the event, in request p's transaction. The UPDATE
\* waits for a row lock another transaction holds.
UbsUpdate(p) ==
    /\ req[p].pc = "ubs_update"
    /\ ~BookingLockedByOther(p, req[p].b)
    /\ req' = [req EXCEPT ![p] =
            UbsWrite(req[p], BookingSeenBy(p, req[p].b), now, "commit")]
    /\ UNCHANGED <<bookings, intents, events, outbox, ledger, now, config, hist>>

(***************************************************************************)
(* POST /v1/bookings/:id/accept, N providers at once on a PAID_SEARCHING   *)
(* booking (test 'First accept wins, second fails').                       *)
(***************************************************************************)
PaidSearchingBooking(cands, otp) ==
    [NoBooking EXCEPT !.status = "PAID_SEARCHING", !.customer_id = "u1",
                      !.candidate_list = cands, !.otp = otp]

InitAccept ==
    /\ \E cands \in SUBSET {ProviderSeq[i] : i \in 1..NumAccepters} :
          /\ Cardinality(cands) >= 2
          /\ bookings = [b \in BookingIds |-> PaidSearchingBooking(cands, "1234")]
    /\ intents = <<>>
    /\ events = <<>>
    /\ outbox = <<>>
    /\ ledger = [e \in EventIds |-> None]
    /\ now = 0
    /\ config = [stripe |-> FALSE]
    /\ req = [p \in 1..NumAccepters |-> IdleReq]
    /\ hist = NoHist

\* Request p is the accept call of provider ProviderSeq[p]; each calls once.
AcceptCall(p) ==
    /\ req[p].res = None
    /\ \E b \in BookingIds :
          UbsSelect(p, b, "ACCEPTED", "Provider", ProviderSeq[p], NoOtp, TRUE)

NextAccept ==
    \/ \E p \in Reqs : AcceptCall(p)
    \/ \E p \in Reqs : UbsUpdate(p)
    \/ \E p \in Reqs : TxCommit(p, TRUE)

SpecAccept == InitAccept /\ [][NextAccept]_vars

AcceptReturned == {p \in Reqs : req[p].pc = "done"}
AcceptWinners == {p \in AcceptReturned : req[p].res = "ok"}

\* C1: of the concurrent accept calls on a PAID_SEARCHING booking at most one
\* returns ok at any time; once every call has returned exactly one has returned
\* ok and all the others an error; and the committed booking is ACCEPTED with
\* provider_id the uid of the call that returned ok.
C1_ExactlyOneAcceptWins ==
    /\ Cardinality(AcceptWinners) <= 1
    /\ \A p \in AcceptWinners : \A b \in BookingIds :
          /\ bookings[b].status = "ACCEPTED"
          /\ bookings[b].provider_id = ProviderSeq[p]
    /\ AcceptReturned = Reqs =>
          /\ Cardinality(AcceptWinners) = 1
          /\ \A p \in Reqs \ AcceptWinners : req[p].res \notin {"ok", None}

\* C1 witness: every call has returned, a candidate won and another candidate,
\* who found the booking claimed, lost.
C1_Witness ==
    /\ AcceptReturned = Reqs
    /\ \E p, q \in Reqs :
          /\ p # q
          /\ req[p].res = "ok"
          /\ req[q].res = "Invalid transition"
          /\ \A b \in BookingIds :
                {ProviderSeq[p], ProviderSeq[q]} \subseteq bookings[b].candidate_list

(***************************************************************************)
(* createBooking (bookings.ts:28-70): one transaction of inserts.          *)
(***************************************************************************)
MaxCandidates == 5

\* The providers table: the online providers offering the service, by created_at.
OnlineProviders == <<"p1", "p2">>

\* Step 1: the first MaxCandidates online providers of the service.
CandidateList ==
    {OnlineProviders[i] : i \in 1..(IF Len(OnlineProviders) < MaxCandidates
                                    THEN Len(OnlineProviders) ELSE MaxCandidates)}

\* The price of the seeded service 'Blocked Drain' (migration 003).
SeededPriceCents == 45000

\* A service_id of the catalogue and one that the catalogue does not hold.
ServiceIds == {"blocked_drain", "unknown_service"}

\* services.ts: the row of the catalogue, or none (name and price null).
getServiceById(id) ==
    IF id = "blocked_drain"
    THEN [name |-> "Blocked Drain", price_cents |-> SeededPriceCents]
    ELSE [name |-> None, price_cents |-> -1]

\* The row that the INSERT of createBooking writes.
CreatedRow(user_id, otp, service_id, t) ==
    [NoBooking EXCEPT !.status = "PENDING_PAYMENT", !.customer_id = user_id,
                      !.candidate_list = CandidateList, !.otp = otp,
                      !.service_name_snapshot = getServiceById(service_id).name,
                      !.price_snapshot_cents = getServiceById(service_id).price_cents,
                      !.created_at = t, !.updated_at = t]

createBookingOf(p, b, user_id, otp, service_id) ==
    /\ req[p].pc = "idle"
    /\ bookings[b].status = "NULL"
    /\ bookings' = [bookings EXCEPT ![b] = CreatedRow(user_id, otp, service_id, now)]
    /\ events' = Append(events, Event(b, "create_booking", "User", user_id,
                                      "NULL", "PENDING_PAYMENT"))
    /\ hist' = [hist EXCEPT !.change[b] =
            [b |-> b, from |-> "NULL", to |-> "PENDING_PAYMENT", role |-> "User",
             op |-> "createBooking"]]
    /\ UNCHANGED <<intents, outbox, ledger, now, config, req>>

\* A booking of a service that the catalogue does not hold (snapshots null).
createBooking(p, b, user_id, otp) ==
    createBookingOf(p, b, user_id, otp, "unknown_service")

(***************************************************************************)
(* payments.ts: releaseAuthorization, chargeCancellationFee.               *)
(***************************************************************************)
Intent(b, status, prefix, amount) ==
    [booking_id |-> b, status |-> status, provider_ref |-> prefix,
     amount_cents |-> amount]

\* The intents of booking b with the given status, as request p's statement sees them.
IntentsSeenBy(p, b, status) ==
    {r \in 1..Len(intents) : intents[r].booking_id = b /\ IntentStatusSeenBy(p, r) = status}

\* An UPDATE ... WHERE booking_id = b AND status = <status> waits while a row it
\* matches is locked by another transaction.
IntentUpdateReady(p, b, status) ==
    \A r \in IntentsSeenBy(p, b, status) : ~IntentLockedByOther(p, r)

\* The writes of UPDATE payment_intents SET status = <to> WHERE booking_id = b AND
\* status = <from>, added to the uncommitted writes w.
IntentUpdate(p, w, b, from, to) ==
    {x \in w : x.ref \notin IntentsSeenBy(p, b, from)}
        \cup {[ref |-> r, status |-> to] : r \in IntentsSeenBy(p, b, from)}

releaseAuthorization(p, w, b) == IntentUpdate(p, w, b, "AUTHORIZED", "CANCELLED")

chargeCancellationFee(b) == Intent(b, "SUCCEEDED", "pi_fee_", FeeCents)

(***************************************************************************)
(* cancelBooking (bookings.ts:233-272).                                    *)
(***************************************************************************)
\* Mutant: the transition table is not consulted.
CancelAllowed_Always(currentStatus, role) == TRUE

\* The state-machine check of the cancellation.
CancelAllowed(currentStatus, role) == isValidTransition(currentStatus, "CANCELLED", role)

CancelCheck(row, role, actorId) ==
    IF row.status = "NULL" THEN "Booking not found"
    ELSE IF role = "User" /\ row.customer_id # actorId
         THEN "Unauthorized to cancel this booking"
    ELSE IF ~CancelAllowed(row.status, role) THEN "Cannot cancel booking"
    ELSE "ok"

needsFee(currentStatus) == currentStatus \in {"EN_ROUTE", "ARRIVED"}

\* Lock and read the row, check ownership and the transition.
CancelSelect(p, b, role, actorId, keep) ==
    /\ req[p].pc = "idle"
    /\ ~BookingLockedByOther(p, b)
    /\ LET row == bookings[b]
           err == CancelCheck(row, role, actorId)
           r == [IdleReq EXCEPT !.op = "cancelBooking", !.b = b, !.role = role,
                    !.actor = actorId, !.from = row.status, !.to = "CANCELLED",
                    !.lk = row.status # "NULL", !.res = err, !.pc = "cancel_release"]
       IN req' = [req EXCEPT ![p] = IF err = "ok" THEN r ELSE Returned(r, keep)]
    /\ UNCHANGED <<bookings, intents, events, outbox, ledger, now, config, hist>>

\* Release the authorization, charge the fee, update the status, log the event.
CancelWrite(p) ==
    /\ req[p].pc = "cancel_release"
    /\ IntentUpdateReady(p, req[p].b, "AUTHORIZED")
    /\ LET b == req[p].b
           row == BookingSeenBy(p, b)
       IN req' = [req EXCEPT ![p] =
                    [@ EXCEPT
                        !.wint = releaseAuthorization(p, @, b),
                        !.wins = IF needsFee(req[p].from)
                                 THEN Append(@, chargeCancellationFee(b)) ELSE @,
                        !.wbk = [row EXCEPT !.status = "CANCELLED", !.updated_at = now],
                        !.wev = Append(@, Event(b, TransitionEvent("CANCELLED"), req[p].role,
                                                req[p].actor, req[p].from, "CANCELLED")),
                        !.res = "ok", !.pc = "commit"]]
    /\ UNCHANGED <<bookings, intents, events, outbox, ledger, now, config, hist>>

(***************************************************************************)
(* providerCancelBooking (bookings.ts:291-328).                            *)
(***************************************************************************)
\* Mutant: the caller is not compared with the assigned provider.
ProviderCancelCheck_AnyProvider(row, providerId) ==
    IF row.status = "NULL" THEN "Booking not found"
    ELSE IF ~isValidTransition(row.status, "PAID_SEARCHING", "Provider")
         THEN "Invalid transition"
    ELSE "ok"

\* The checks on the row read under the lock: "ok" or the error.
ProviderCancelCheck(row, providerId) ==
    IF row.status = "NULL" THEN "Booking not found"
    ELSE IF row.provider_id # providerId
         THEN "Unauthorized: You are not the assigned provider"
    ELSE IF ~isValidTransition(row.status, "PAID_SEARCHING", "Provider")
         THEN "Invalid transition"
    ELSE "ok"

\* Mutant: the UPDATE leaves provider_id as it is.
ProviderCancelRow_KeepsProvider(row, t) ==
    [row EXCEPT !.status = "PAID_SEARCHING", !.updated_at = t]

\* The row the UPDATE writes: PAID_SEARCHING, provider_id = NULL.
ProviderCancelRow(row, t) ==
    [row EXCEPT !.status = "PAID_SEARCHING", !.provider_id = None, !.updated_at = t]

providerCancelBooking(p, b, providerId, keep) ==
    /\ req[p].pc = "idle"
    /\ ~BookingLockedByOther(p, b)
    /\ LET row == bookings[b]
           err == ProviderCancelCheck(row, providerId)
           r0 == [IdleReq EXCEPT !.op = "providerCancelBooking", !.b = b,
                     !.role = "Provider", !.actor = providerId, !.from = row.status,
                     !.to = "PAID_SEARCHING", !.lk = row.status # "NULL",
                     !.res = err, !.pc = "commit"]
       IN req' = [req EXCEPT ![p] =
                    IF err # "ok" THEN Returned(r0, keep)
                    ELSE [r0 EXCEPT
                            !.wbk = ProviderCancelRow(row, now),
                            !.wev = <<Event(b, "provider_cancelled", "Provider", providerId,
                                            row.status, "PAID_SEARCHING")>>,
                            !.wob = <<Notice(b, row.customer_id, "PROVIDER_CANCELLED")>>]]
    /\ UNCHANGED <<bookings, intents, events, outbox, ledger, now, config, hist>>

(***************************************************************************)
(* flagIssue (bookings.ts:333-376).                                        *)
(***************************************************************************)
\* Mutant: the clock is not compared with complete_pending_until.
FlagCheck_NoWindow(row, customerId, t) ==
    IF row.status = "NULL" THEN "Booking not found"
    ELSE IF row.customer_id # customerId
         THEN "Unauthorized: You are not the owner of this booking"
    ELSE IF row.status # "COMPLETE_PENDING"
         THEN "Booking must be in COMPLETE_PENDING state to flag an issue"
    ELSE "ok"

\* The checks on the row read under the lock, at time t: "ok" or the error.
FlagCheck(row, customerId, t) ==
    IF row.status = "NULL" THEN "Booking not found"
    ELSE IF row.customer_id # customerId
         THEN "Unauthorized: You are not the owner of this booking"
    ELSE IF row.status # "COMPLETE_PENDING"
         THEN "Booking must be in COMPLETE_PENDING state to flag an issue"
    ELSE IF row.complete_pending_until = -1 \/ t > row.complete_pending_until
         THEN "Grace window for flagging issues has closed"
    ELSE "ok"

flagIssue(p, b, customerId, keep) ==
    /\ req[p].pc = "idle"
    /\ ~BookingLockedByOther(p, b)
    /\ LET row == bookings[b]
           err == FlagCheck(row, customerId, now)
           r0 == [IdleReq EXCEPT !.op = "flagIssue", !.b = b, !.role = "User",
                     !.actor = customerId, !.from = row.status, !.to = "NEEDS_REVIEW",
                     !.lk = row.status # "NULL", !.res = err, !.pc = "commit"]
       IN req' = [req EXCEPT ![p] =
                    IF err # "ok" THEN Returned(r0, keep)
                    ELSE [r0 EXCEPT
                            !.wbk = [row EXCEPT !.status = "NEEDS_REVIEW", !.updated_at = now],
                            !.wev = <<Event(b, "issue_flagged", "User", customerId,
                                            row.status, "NEEDS_REVIEW")>>,
                            !.wob = <<Notice(b, "SYSTEM_ADMIN", "ISSUE_FLAGGED")>>]]
    /\ UNCHANGED <<bookings, intents, events, outbox, ledger, now, config, hist>>

(***************************************************************************)
(* sweepExpiredBookings (bookings.ts:277-286): one UPDATE, outside any     *)
(* transaction. It waits for the row lock of every row it matches.         *)
(***************************************************************************)
Stale_AtTheBoundary(row, t) ==
    row.status = "PENDING_PAYMENT" /\ row.created_at <= t - SweepAgeMinutes

Stale_AnyStatus(row, t) == row.created_at < t - SweepAgeMinutes

Stale(row, t) == row.status = "PENDING_PAYMENT" /\ row.created_at < t - SweepAgeMinutes

\* The rows the UPDATE leaves in a table at time t, and the rowCount it returns.
SweepRows(table, t) ==
    [b \in DOMAIN table |->
        IF Stale(table[b], t)
        THEN [table[b] EXCEPT !.status = "EXPIRED", !.updated_at = t]
        ELSE table[b]]

SweepCount(table, t) == Cardinality({b \in DOMAIN table : Stale(table[b], t)})

sweepExpiredBookings(p) ==
    /\ req[p].pc = "idle"
    /\ \E b \in BookingIds : Stale(bookings[b], now)
    /\ \A b \in BookingIds : Stale(bookings[b], now) => ~BookingLockedByOther(p, b)
    /\ bookings' = SweepRows(bookings, now)
    /\ hist' = [hist EXCEPT !.change = [b \in BookingIds |->
            IF Stale(bookings[b], now)
            THEN [b |-> b, from |-> "PENDING_PAYMENT", to |-> "EXPIRED",
                  role |-> "System", op |-> "sweepExpiredBookings"]
            ELSE hist.change[b]]]
    /\ UNCHANGED <<intents, events, outbox, ledger, now, config, req>>

(***************************************************************************)
(* The clock: time passes in steps of a day and a minute, so that after a  *)
(* step an unpaid booking is stale and an open grace window has closed. It *)
(* steps while a booking is in a status whose operations read the clock.   *)
(***************************************************************************)
TickMinutes == SweepAgeMinutes + 1

Tick ==
    /\ now < MaxTicks * TickMinutes
    /\ \E b \in BookingIds : bookings[b].status \in {"PENDING_PAYMENT", "COMPLETE_PENDING"}
    /\ now' = now + TickMinutes
    /\ UNCHANGED <<bookings, intents, events, outbox, ledger, config, req, hist>>

(***************************************************************************)
(* POST /v1/bookings/:id/pay (app.ts:373-401) and createIntent             *)
(* (payments.ts:32-61). Neither statement runs in a transaction.           *)
(***************************************************************************)
\* provider_ref: the Stripe id when the secret key is set, a mock reference otherwise.
IntentRefPrefix == IF config.stripe THEN "pi_" ELSE "pi_mock_"

\* amountCents ?? 10000, called with booking.price_snapshot_cents ?? undefined.
PayAmount(row) ==
    IF row.price_snapshot_cents = -1 THEN DefaultAmountCents
    ELSE row.price_snapshot_cents

createIntent(b) == Intent(b, "CREATED", IntentRefPrefix, PayAmount(bookings[b]))

\* getBooking, the ownership check and createIntent.
PayCreateIntent(p, b, uid, role) ==
    /\ req[p].pc = "idle"
    /\ bookings[b].status # "NULL"
    /\ bookings[b].customer_id = uid \/ role = "admin"
    /\ Len(intents) < MaxIntents
    /\ intents' = Append(intents, createIntent(b))
    /\ req' = [req EXCEPT ![p] =
            [IdleReq EXCEPT !.op = "pay", !.b = b, !.actor = uid,
                            !.ref = Len(intents) + 1, !.pc = "pay_update"]]
    /\ UNCHANGED <<bookings, events, outbox, ledger, now, config, hist>>

\* UPDATE bookings SET stripe_payment_intent_id; it waits for the row lock.
PayUpdateBooking(p) ==
    /\ req[p].pc = "pay_update"
    /\ ~BookingLockedByOther(p, req[p].b)
    /\ bookings' = [bookings EXCEPT ![req[p].b] =
            [@ EXCEPT !.stripe_payment_intent_id = req[p].ref, !.updated_at = now]]
    /\ req' = [req EXCEPT ![p] = IdleReq]
    /\ UNCHANGED <<intents, events, outbox, ledger, now, config, hist>>

(***************************************************************************)
(* handleIntentSuccess (payments.ts:67-87): transaction 1 updates the      *)
(* intent; updateBookingStatus is called without the client, so it runs in *)
(* a transaction 2 of its own, which commits before transaction 1 does.    *)
(***************************************************************************)
\* Mutant: the result of updateBookingStatus is ignored.
HisChecksResult_Ignored == FALSE

\* Whether the handler checks the result of updateBookingStatus before it returns.
HisChecksResult == TRUE

\* The return of handleIntentSuccess, or its error: to processEvent when it runs
\* as the handler of a delivery, to the caller otherwise.
HisReturn(r, keep, ok) ==
    IF r.evt # None
    THEN [IdleReq EXCEPT !.op = r.op, !.evt = r.evt, !.after = r.after,
                         !.wled = r.wled, !.llk = r.llk,
                         !.ran = IF ok THEN "ok" ELSE "error", !.pc = "pe_mark"]
    ELSE Returned(r, keep)

\* Transaction 1: UPDATE payment_intents SET status = 'AUTHORIZED' WHERE
\* provider_ref = ref. A reference that matches no row throws at once.
HisAuthorize(r, ref, keep) ==
    IF ref \in 1..Len(intents)
    THEN [r EXCEPT !.ref = ref, !.b = intents[ref].booking_id,
                   !.wint = {[ref |-> ref, status |-> "AUTHORIZED"]},
                   !.pc = "his_booking"]
    ELSE HisReturn([r EXCEPT !.res = "Payment intent not found"], keep, FALSE)

\* The UPDATE waits for the lock of the row it matches.
handleIntentSuccess(p, ref, keep) ==
    /\ req[p].pc = "idle"
    /\ ref \in 1..Len(intents) => ~IntentLockedByOther(p, ref)
    /\ req' = [req EXCEPT ![p] =
            HisAuthorize([IdleReq EXCEPT !.op = "handleIntentSuccess"], ref, keep)]
    /\ UNCHANGED <<bookings, intents, events, outbox, ledger, now, config, hist>>

\* Transaction 2: updateBookingStatus(bookingId, 'PAID_SEARCHING', 'System'),
\* its statements up to the COMMIT. When it returns an error, which ends
\* transaction 2, the handler throws and transaction 1 is rolled back.
HisUpdateBooking(p, keep) ==
    /\ req[p].pc = "his_booking"
    /\ UbsLockFree(p, req[p].b)
    /\ LET row == bookings[req[p].b]
           r1 == UbsPlan(req[p], req[p].b, row, "PAID_SEARCHING", "System", None,
                         NoOtp, "his_commit2", "his_commit2")
           r2 == IF r1.res = "ok" THEN UbsWrite(r1, row, now, "his_commit2") ELSE r1
       IN req' = [req EXCEPT ![p] =
                    IF r2.res = "ok" THEN r2
                    ELSE IF HisChecksResult THEN HisReturn(r2, keep, FALSE)
                    ELSE [r2 EXCEPT !.lk = FALSE, !.pc = "his_commit1"]]
    /\ UNCHANGED <<bookings, intents, events, outbox, ledger, now, config, hist>>

\* COMMIT of transaction 2: the booking and its event are published.
HisCommitBooking(p) ==
    /\ req[p].pc = "his_commit2"
    /\ bookings' = [bookings EXCEPT ![req[p].b] = req[p].wbk]
    /\ events' = events \o req[p].wev
    /\ hist' = [hist EXCEPT !.change = ChangeOf(p)]
    /\ req' = [req EXCEPT ![p] =
            [@ EXCEPT !.lk = FALSE, !.wbk = NoBooking, !.wev = <<>>, !.pc = "his_commit1"]]
    /\ UNCHANGED <<intents, outbox, ledger, now, config>>

\* COMMIT of transaction 1: the intent is published.
HisCommitIntent(p, keep) ==
    /\ req[p].pc = "his_commit1"
    /\ intents' = ApplyIntentWrites(p)
    /\ req' = [req EXCEPT ![p] = HisReturn([req[p] EXCEPT !.res = "ok"], keep, TRUE)]
    /\ UNCHANGED <<bookings, events, outbox, ledger, now, config, hist>>

(***************************************************************************)
(* capturePayment (payments.ts:94-122).                                    *)
(***************************************************************************)
\* Step 1: the SELECT finds an AUTHORIZED intent of the booking.
CaptureFinds(p, b) == IntentsSeenBy(p, b, "AUTHORIZED") # {}

\* Step 2: whether stripe.paymentIntents.capture is called for the intent found.
CaptureCallsStripe(p, b) ==
    /\ config.stripe
    /\ \E r \in IntentsSeenBy(p, b, "AUTHORIZED") :
          intents[r].provider_ref \in {"pi_", "pi_fee_"}

\* Step 3: the writes of the UPDATE, added to the uncommitted writes w.
CaptureUpdate(p, w, b) == IntentUpdate(p, w, b, "AUTHORIZED", "SUCCEEDED")

(***************************************************************************)
(* completeBooking (bookings.ts:382-427).                                  *)
(***************************************************************************)
CompleteCheck(row, providerId) ==
    IF row.status = "NULL" THEN "Booking not found"
    ELSE IF row.provider_id # providerId THEN "UNAUTHORIZED"
    ELSE IF row.status # "IN_PROGRESS" THEN "INVALID_STATE"
    ELSE "ok"

\* Steps 1-2: lock and read the row, authorization and state check.
CompleteSelect(p, b, providerId, keep) ==
    /\ req[p].pc = "idle"
    /\ ~BookingLockedByOther(p, b)
    /\ LET row == bookings[b]
           err == CompleteCheck(row, providerId)
           r == [IdleReq EXCEPT !.op = "completeBooking", !.b = b,
                    !.role = "Provider", !.actor = providerId,
                    !.from = row.status, !.to = "COMPLETE_PENDING",
                    !.lk = row.status # "NULL", !.res = err, !.pc = "complete_find"]
       IN req' = [req EXCEPT ![p] = IF err = "ok" THEN r ELSE Returned(r, keep)]
    /\ UNCHANGED <<bookings, intents, events, outbox, ledger, now, config, hist>>

\* Mutant: the catch branch rethrows, which rolls the transaction back.
CaptureFailureEnds_Rethrown == "rollback"

\* How the catch branch ends the callback: it returns, so that withTx commits.
CaptureFailureEnds == "commit"

\* Mutant: the catch branch writes the failure event and no notification.
CaptureFailed_NoNotice(r) ==
    [r EXCEPT
        !.wev = Append(@, Event(r.b, "capture_failed", "Provider", r.actor,
                                r.from, r.from)),
        !.res = "CAPTURE_FAILED", !.pc = CaptureFailureEnds]

\* The catch branch: the failure event and the admin notification, written in
\* the transaction, which then commits.
CaptureFailed(r) ==
    [r EXCEPT
        !.wev = Append(@, Event(r.b, "capture_failed", "Provider", r.actor,
                                r.from, r.from)),
        !.wob = Append(@, Notice(r.b, "SYSTEM_ADMIN", "CAPTURE_FAILED")),
        !.res = "CAPTURE_FAILED", !.pc = CaptureFailureEnds]

\* Step 3, capturePayment(id, client) up to the Stripe call, which may throw.
CompleteFind(p) ==
    /\ req[p].pc = "complete_find"
    /\ \E stripeThrows \in BOOLEAN :
          /\ stripeThrows => CaptureFinds(p, req[p].b) /\ CaptureCallsStripe(p, req[p].b)
          /\ req' = [req EXCEPT ![p] =
                IF ~CaptureFinds(p, req[p].b) \/ stripeThrows
                THEN CaptureFailed(req[p])
                ELSE [req[p] EXCEPT !.pc = "complete_capture"]]
    /\ UNCHANGED <<bookings, intents, events, outbox, ledger, now, config, hist>>

\* Mutant: capturePayment(id) is called without the client and runs on the pool.
CompleteCaptureInTx_OnPool == FALSE

\* The client the capture UPDATE of completeBooking runs on: the transaction's.
CompleteCaptureInTx == TRUE

\* Step 3, the UPDATE of capturePayment, and step 4, updateBookingStatus on the
\* same client. An updateBookingStatus that fails throws, which rolls back.
CompleteCapture(p) ==
    /\ req[p].pc = "complete_capture"
    /\ IntentUpdateReady(p, req[p].b, "AUTHORIZED")
    /\ LET b == req[p].b
           hit == IntentsSeenBy(p, b, "AUTHORIZED")
           r1 == IF CompleteCaptureInTx
                 THEN [req[p] EXCEPT !.wint = CaptureUpdate(p, @, b)]
                 ELSE req[p]
           r2 == UbsPlan(r1, b, BookingSeenBy(p, b), "COMPLETE_PENDING", "Provider",
                         req[p].actor, NoOtp, "commit", "rollback")
           r3 == IF r2.res = "ok" THEN UbsWrite(r2, BookingSeenBy(p, b), now, "commit")
                 ELSE r2
       IN /\ req' = [req EXCEPT ![p] =
                IF hit = {} THEN CaptureFailed(req[p])
                ELSE IF r3.res = "ok" THEN r3 ELSE [r3 EXCEPT !.pc = "rollback"]]
          /\ intents' = IF CompleteCaptureInTx \/ hit = {} THEN intents
                        ELSE [r \in 1..Len(intents) |->
                                IF r \in hit THEN [intents[r] EXCEPT !.status = "SUCCEEDED"]
                                ELSE intents[r]]
    /\ UNCHANGED <<bookings, events, outbox, ledger, now, config, hist>>

(***************************************************************************)
(* POST /v1/bookings/:id/provider-complete (app.ts:487-511).               *)
(***************************************************************************)
\* Mutant: the handler does not look at the status.
ProviderCompleteCheck_AnyStatus(row, uid) ==
    IF row.status = "NULL" THEN "Booking not found"
    ELSE IF row.provider_id # uid THEN "Unauthorized: You are not the assigned provider"
    ELSE "ok"

\* The handler's checks on the row getBooking returned: "ok" or the error it answers.
ProviderCompleteCheck(row, uid) ==
    IF row.status = "NULL" THEN "Booking not found"
    ELSE IF row.provider_id # uid THEN "Unauthorized: You are not the assigned provider"
    ELSE IF row.status # "IN_PROGRESS" THEN "Booking must be IN_PROGRESS"
    ELSE "ok"

\* getBooking and the two checks of the handler, outside any transaction.
ProviderCompleteGet(p, b, uid) ==
    /\ req[p].pc = "idle"
    /\ ProviderCompleteCheck(bookings[b], uid) = "ok"
    /\ req' = [req EXCEPT ![p] =
            [IdleReq EXCEPT !.op = "provider-complete", !.b = b, !.actor = uid,
                            !.pc = "pcomplete_call"]]
    /\ UNCHANGED <<bookings, intents, events, outbox, ledger, now, config, hist>>

\* updateBookingStatus(id, 'COMPLETE_PENDING', 'Provider', uid), steps 1-3.
ProviderCompleteUpdate(p, keep) ==
    /\ req[p].pc = "pcomplete_call"
    /\ UbsLockFree(p, req[p].b)
    /\ LET r == UbsPlan(req[p], req[p].b, bookings[req[p].b], "COMPLETE_PENDING",
                        "Provider", req[p].actor, NoOtp, "ubs_update", "commit")
       IN req' = [req EXCEPT ![p] = IF r.res = "ok" THEN r ELSE Returned(r, keep)]
    /\ UNCHANGED <<bookings, intents, events, outbox, ledger, now, config, hist>>

(***************************************************************************)
(* POST /v1/bookings/:id/confirm-complete (app.ts:514-551).                *)
(***************************************************************************)
\* The answer to a confirm-complete of a booking that is CLOSED already:
\* { ok: true, status: 'CLOSED', already_closed: true }.
AlreadyClosed == "ok, already_closed"

\* Mutant: the handler does not require COMPLETE_PENDING.
ConfirmCompleteCheck_AnyStatus(row, uid) ==
    IF row.status = "NULL" THEN "Booking not found"
    ELSE IF row.customer_id # uid
         THEN "Unauthorized: You are not the owner of this booking"
    ELSE IF row.status = "CLOSED" THEN AlreadyClosed
    ELSE "ok"

\* Mutant: the handler has no branch for a booking that is CLOSED already.
ConfirmCompleteCheck_NoClosedBranch(row, uid) ==
    IF row.status = "NULL" THEN "Booking not found"
    ELSE IF row.customer_id # uid
         THEN "Unauthorized: You are not the owner of this booking"
    ELSE IF row.status # "COMPLETE_PENDING"
         THEN "Booking must be in COMPLETE_PENDING state"
    ELSE "ok"

\* The handler's checks on the row getBooking returned: "ok" to go on to the
\* capture, or the answer it gives at once.
ConfirmCompleteCheck(row, uid) ==
    IF row.status = "NULL" THEN "Booking not found"
    ELSE IF row.customer_id # uid
         THEN "Unauthorized: You are not the owner of this booking"
    ELSE IF row.status = "CLOSED" THEN AlreadyClosed
    ELSE IF row.status # "COMPLETE_PENDING"
         THEN "Booking must be in COMPLETE_PENDING state"
    ELSE "ok"

\* getBooking and the checks of the handler, outside any transaction. A CLOSED
\* booking is answered with success at once.
ConfirmCompleteGet(p, b, uid) ==
    /\ req[p].pc = "idle"
    /\ ConfirmCompleteCheck(bookings[b], uid) = "ok"
    /\ req' = [req EXCEPT ![p] =
            [IdleReq EXCEPT !.op = "confirm-complete", !.b = b, !.actor = uid,
                            !.pc = "confirm_find"]]
    /\ UNCHANGED <<bookings, intents, events, outbox, ledger, now, config, hist>>

\* capturePayment(id), on the pool: the SELECT and the Stripe call. A failure is
\* answered 409 and nothing is written.
ConfirmCompleteFind(p, keep) ==
    /\ req[p].pc = "confirm_find"
    /\ \E stripeThrows \in BOOLEAN :
          /\ stripeThrows => CaptureFinds(p, req[p].b) /\ CaptureCallsStripe(p, req[p].b)
          /\ req' = [req EXCEPT ![p] =
                IF ~CaptureFinds(p, req[p].b) \/ stripeThrows
                THEN [AfterReturn(p, keep) EXCEPT !.res =
                        IF keep THEN "Payment capture failed" ELSE None]
                ELSE [req[p] EXCEPT !.pc = "confirm_capture"]]
    /\ UNCHANGED <<bookings, intents, events, outbox, ledger, now, config, hist>>

\* capturePayment(id), on the pool: the UPDATE commits on its own.
ConfirmCompleteCapture(p, keep) ==
    /\ req[p].pc = "confirm_capture"
    /\ IntentUpdateReady(p, req[p].b, "AUTHORIZED")
    /\ LET hit == IntentsSeenBy(p, req[p].b, "AUTHORIZED")
       IN /\ intents' = [r \in 1..Len(intents) |->
                IF r \in hit THEN [intents[r] EXCEPT !.status = "SUCCEEDED"]
                ELSE intents[r]]
          /\ req' = [req EXCEPT ![p] =
                IF hit = {}
                THEN [AfterReturn(p, keep) EXCEPT !.res =
                        IF keep THEN "Payment capture failed" ELSE None]
                ELSE [req[p] EXCEPT !.pc = "confirm_close"]]
    /\ UNCHANGED <<bookings, events, outbox, ledger, now, config, hist>>

\* updateBookingStatus(id, 'CLOSED', 'System', uid), steps 1-3.
ConfirmCompleteClose(p, keep) ==
    /\ req[p].pc = "confirm_close"
    /\ UbsLockFree(p, req[p].b)
    /\ LET r == UbsPlan(req[p], req[p].b, bookings[req[p].b], "CLOSED", "System",
                        req[p].actor, NoOtp, "ubs_update", "commit")
       IN req' = [req EXCEPT ![p] = IF r.res = "ok" THEN r ELSE Returned(r, keep)]
    /\ UNCHANGED <<bookings, intents, events, outbox, ledger, now, config, hist>>

(***************************************************************************)
(* processEvent(provider, event_id, payload, handler), the persistent      *)
(* ledger of webhook events, called by POST /v1/webhooks/:provider         *)
(* (app.ts:464-483). One transaction on the webhook_events table, whose    *)
(* rows are unique in (provider, event_id).                                *)
(***************************************************************************)
LedgerLockedByOther(p, e) ==
    \E q \in Reqs \ {p} : req[q].llk /\ req[q].evt = e

\* Mutant: a FAILED row suppresses the handler as a PROCESSED row does.
IsDuplicate_AnyOutcome(status) == status \in {"PROCESSED", "FAILED"}

\* Step 2: the status that makes a delivery a duplicate.
IsDuplicate(status) == status = "PROCESSED"

\* Steps 1-2: SELECT status ... FOR UPDATE waits for the lock of the row, if the
\* row is committed; a row another transaction has inserted and not committed is
\* not seen and not waited for. A PROCESSED row ends the delivery as DUPLICATE.
PeSelect(p, e) ==
    /\ req[p].pc = "idle"
    /\ ledger[e] # None => ~LedgerLockedByOther(p, e)
    /\ req' = [req EXCEPT ![p] =
            IF IsDuplicate(ledger[e])
            THEN [IdleReq EXCEPT !.op = "processEvent", !.evt = e,
                                 !.after = e \in hist.processed,
                                 !.res = "DUPLICATE", !.pc = "done"]
            ELSE [IdleReq EXCEPT !.op = "processEvent", !.evt = e,
                                 !.after = e \in hist.processed,
                                 !.llk = ledger[e] # None, !.pc = "pe_upsert"]]
    /\ UNCHANGED <<bookings, intents, events, outbox, ledger, now, config, hist>>

\* Step 3: INSERT ... ON CONFLICT (provider, event_id) DO UPDATE SET status =
\* 'PENDING'. It waits for the transaction that holds the row or has inserted it.
PeUpsert(p) ==
    /\ req[p].pc = "pe_upsert"
    /\ ~LedgerLockedByOther(p, req[p].evt)
    /\ req' = [req EXCEPT ![p] =
            [@ EXCEPT !.wled = "PENDING", !.llk = TRUE, !.pc = "pe_handler"]]
    /\ UNCHANGED <<bookings, intents, events, outbox, ledger, now, config, hist>>

\* Step 4: the handler the route passes. For payment_intent.succeeded it is
\* handleIntentSuccess, whose first statement runs here; other types do nothing.
PeHandler(p) ==
    /\ req[p].pc = "pe_handler"
    /\ LET e == EventOf(req[p].evt)
       IN IF e.type = "payment_intent.succeeded"
          THEN /\ e.reference \in 1..Len(intents) => ~IntentLockedByOther(p, e.reference)
               /\ req' = [req EXCEPT ![p] =
                    HisAuthorize([req[p] EXCEPT !.ran = "invoked"], e.reference, TRUE)]
          ELSE req' = [req EXCEPT ![p] = [@ EXCEPT !.ran = "ok", !.pc = "pe_mark"]]
    /\ UNCHANGED <<bookings, intents, events, outbox, ledger, now, config, hist>>

\* Steps 5-6: the status the row is given once the handler has returned or thrown.
MarkedStatus(ran) == IF ran = "ok" THEN "PROCESSED" ELSE "FAILED"

\* Steps 5-6: UPDATE the status, end the transaction; PROCESSED is returned, the
\* handler's error propagates.
PeMark(p) ==
    /\ req[p].pc = "pe_mark"
    /\ ledger' = [ledger EXCEPT ![req[p].evt] = MarkedStatus(req[p].ran)]
    /\ hist' = [hist EXCEPT !.processed =
            IF MarkedStatus(req[p].ran) = "PROCESSED" THEN @ \cup {req[p].evt} ELSE @]
    /\ req' = [req EXCEPT ![p] =
            [IdleReq EXCEPT !.op = "processEvent", !.evt = req[p].evt,
                            !.after = req[p].after, !.ran = req[p].ran,
                            !.res = IF req[p].ran = "ok" THEN "PROCESSED" ELSE "error",
                            !.pc = "done"]]
    /\ UNCHANGED <<bookings, intents, events, outbox, now, config>>

(***************************************************************************)
(* Deliveries of webhook events to POST /v1/webhooks/:provider, any number *)
(* of them at once, for a booking that awaits payment.                     *)
(***************************************************************************)
PendingPaymentBooking ==
    [NoBooking EXCEPT !.status = "PENDING_PAYMENT", !.customer_id = "u1",
                      !.candidate_list = CandidateList, !.otp = "1234"]

InitLedger ==
    /\ bookings = [b \in BookingIds |-> PendingPaymentBooking]
    /\ intents = <<>>
    /\ events = <<>>
    /\ outbox = <<>>
    /\ ledger = [e \in EventIds |-> None]
    /\ now = 0
    /\ config = [stripe |-> FALSE]
    /\ req = [p \in 1..MaxDeliveries |-> IdleReq]
    /\ hist = NoHist

\* Each request delivers one event; before that it may call /pay.
Deliver(p) == \E e \in EventIds : PeSelect(p, e)

PayCall(p) == \E b \in BookingIds : PayCreateIntent(p, b, "u1", "user")

NextLedger ==
    \/ \E p \in Reqs : PayCall(p)
    \/ \E p \in Reqs : PayUpdateBooking(p)
    \/ \E p \in Reqs : Deliver(p)
    \/ \E p \in Reqs : PeUpsert(p)
    \/ \E p \in Reqs : PeHandler(p)
    \/ \E p \in Reqs : HisUpdateBooking(p, TRUE)
    \/ \E p \in Reqs : HisCommitBooking(p)
    \/ \E p \in Reqs : HisCommitIntent(p, TRUE)
    \/ \E p \in Reqs : PeMark(p)

SpecLedger == InitLedger /\ [][NextLedger]_vars

\* The deliveries of event e, and those whose handler was invoked.
Deliveries(e) == {p \in Reqs : req[p].evt = e}
Invoked(e) == {p \in Deliveries(e) : req[p].ran # None}

\* C3: for every event the handler completes successfully in at most one
\* delivery, and a delivery that starts after a PROCESSED outcome of the event
\* was committed returns DUPLICATE without invoking the handler (and so without
\* changing a booking or a payment intent).
C3_HandlerSucceedsAtMostOnce ==
    \A e \in EventIds :
        /\ Cardinality({p \in Deliveries(e) : req[p].ran = "ok"}) <= 1
        /\ \A p \in Deliveries(e) :
              req[p].after => req[p].ran = None /\ req[p].res = "DUPLICATE"

\* C4: when the handler of a delivery throws, the delivery ends with the error,
\* the event's row is committed FAILED and the event is not recorded PROCESSED
\* by it; a delivery that finds the row FAILED does not return DUPLICATE but goes
\* on to the handler, and a delivery whose handler succeeds commits PROCESSED and
\* returns PROCESSED.
C4_FailedIsRecordedAndRetried ==
    [][\A p \in Reqs :
        /\ (req[p].pc = "pe_mark" /\ req[p].ran = "error" /\ req'[p].pc = "done") =>
              /\ req'[p].res = "error"
              /\ ledger'[req[p].evt] = "FAILED"
              /\ hist'.processed = hist.processed
        /\ (req[p].pc = "idle" /\ req'[p].op = "processEvent"
                /\ ledger[req'[p].evt] = "FAILED") =>
              req'[p].pc = "pe_upsert"
        /\ (req[p].pc = "pe_mark" /\ req[p].ran = "ok" /\ req'[p].pc = "done") =>
              /\ req'[p].res = "PROCESSED"
              /\ ledger'[req[p].evt] = "PROCESSED"]_vars

\* C4 witness: a delivery of an event failed, a later delivery of the same event
\* ran the handler again with success, and the event is PROCESSED.
C4_Witness ==
    \E e \in EventIds : \E p, q \in Deliveries(e) :
        /\ req[p].pc = "done" /\ req[p].ran = "error" /\ req[p].res = "error"
        /\ req[q].pc = "done" /\ req[q].ran = "ok" /\ req[q].res = "PROCESSED"
        /\ ledger[e] = "PROCESSED"

\* C5: of the concurrent deliveries of an event not seen before whose handler
\* does not fail, exactly one invokes the handler and every other one returns
\* DUPLICATE.
C5_ConcurrentDeliveriesRunHandlerOnce ==
    \A e \in EventIds :
        (\A p \in Deliveries(e) : req[p].ran # "error") =>
            /\ Cardinality(Invoked(e)) <= 1
            /\ \A p \in Deliveries(e) \ Invoked(e) :
                  req[p].pc = "done" => req[p].res = "DUPLICATE"

(***************************************************************************)
(* The API: every route of app.ts that changes a booking or a payment      *)
(* intent, the exported engine operations behind them, and the clock,      *)
(* called by NumRequests clients at once.                                  *)
(***************************************************************************)
\* The callers: the customer and a stranger, two candidates and a provider who
\* is not one, an admin.
CallingProviders == {"p1", "p2", "p3"}

\* The routes that are one call of updateBookingStatus(id, status, mapRole(role), uid).
StatusRoutes ==
    {[to |-> "ACCEPTED", roles |-> {"Provider"}],      \* POST /accept
     [to |-> "EN_ROUTE", roles |-> {"Provider"}],      \* POST /travel
     [to |-> "ARRIVED", roles |-> {"Provider"}],       \* POST /arrived
     [to |-> "IN_PROGRESS", roles |-> {"Provider"}],   \* POST /start
     [to |-> "CLOSED", roles |-> {"Provider", "Admin"}]}   \* POST /close

Callers(role) ==
    CASE role = "User" -> Customers
      [] role = "Provider" -> CallingProviders
      [] role = "Admin" -> Admins
      [] OTHER -> {None}

\* The event log has room for the events of the calls in flight and one more.
EventRoom ==
    Len(events) + Cardinality({q \in Reqs : req[q].pc # "idle"}) < MaxEvents

Init ==
    /\ bookings = [b \in BookingIds |-> NoBooking]
    /\ intents = <<>>
    /\ events = <<>>
    /\ outbox = <<>>
    /\ ledger = [e \in EventIds |-> None]
    /\ now = 0
    /\ config \in {[stripe |-> FALSE], [stripe |-> TRUE]}
    /\ req = [p \in 1..NumRequests |-> IdleReq]
    /\ hist = NoHist

CreateCall(p) ==
    /\ EventRoom
    /\ \E b \in BookingIds : createBooking(p, b, "u1", "1234")

\* A delivery of payment_intent.succeeded with an event id not seen before.
WebhookCall(p) ==
    /\ EventRoom
    /\ \E ref \in 0..Len(intents) : handleIntentSuccess(p, ref, FALSE)

StatusCall(p) ==
    /\ EventRoom
    /\ \E b \in BookingIds : \E route \in StatusRoutes : \E role \in route.roles :
       \E uid \in Callers(role) :
       \E otp \in IF route.to = "IN_PROGRESS" THEN Otps \cup {NoOtp} ELSE {NoOtp} :
          UbsSelect(p, b, route.to, role, uid, otp, FALSE)

CancelCall(p) ==
    /\ EventRoom
    /\ \E b \in BookingIds : \E role \in {"User", "Provider", "Admin"} :
       \E uid \in Callers(role) : CancelSelect(p, b, role, uid, FALSE)

ProviderCancelCall(p) ==
    /\ EventRoom
    /\ \E b \in BookingIds : \E uid \in CallingProviders : providerCancelBooking(p, b, uid, FALSE)

FlagCall(p) ==
    /\ EventRoom
    /\ \E b \in BookingIds : \E uid \in Customers : flagIssue(p, b, uid, FALSE)

CompleteCall(p) ==
    /\ EventRoom
    /\ \E b \in BookingIds : \E uid \in CallingProviders : CompleteSelect(p, b, uid, FALSE)

ProviderCompleteCall(p) ==
    /\ EventRoom
    /\ \E b \in BookingIds : \E uid \in CallingProviders : ProviderCompleteGet(p, b, uid)

ConfirmCompleteCall(p) ==
    /\ EventRoom
    /\ \E b \in BookingIds : \E uid \in Customers : ConfirmCompleteGet(p, b, uid)

Next ==
    \/ \E p \in Reqs : CreateCall(p)
    \/ \E p \in Reqs : PayCall(p)
    \/ \E p \in Reqs : PayUpdateBooking(p)
    \/ \E p \in Reqs : WebhookCall(p)
    \/ \E p \in Reqs : HisUpdateBooking(p, FALSE)
    \/ \E p \in Reqs : HisCommitBooking(p)
    \/ \E p \in Reqs : HisCommitIntent(p, FALSE)
    \/ \E p \in Reqs : StatusCall(p)
    \/ \E p \in Reqs : UbsUpdate(p)
    \/ \E p \in Reqs : CancelCall(p)
    \/ \E p \in Reqs : CancelWrite(p)
    \/ \E p \in Reqs : ProviderCancelCall(p)
    \/ \E p \in Reqs : FlagCall(p)
    \/ \E p \in Reqs : CompleteCall(p)
    \/ \E p \in Reqs : CompleteFind(p)
    \/ \E p \in Reqs : CompleteCapture(p)
    \/ \E p \in Reqs : ProviderCompleteCall(p)
    \/ \E p \in Reqs : ProviderCompleteUpdate(p, FALSE)
    \/ \E p \in Reqs : ConfirmCompleteCall(p)
    \/ \E p \in Reqs : ConfirmCompleteFind(p, FALSE)
    \/ \E p \in Reqs : ConfirmCompleteCapture(p, FALSE)
    \/ \E p \in Reqs : ConfirmCompleteClose(p, FALSE)
    \/ \E p \in Reqs : TxCommit(p, FALSE)
    \/ \E p \in Reqs : sweepExpiredBookings(p)
    \/ Tick

Spec == Init /\ [][Next]_vars

(***************************************************************************)
(* Properties of the API.                                                  *)
(***************************************************************************)
TerminalStates == {"CLOSED", "CANCELLED", "EXPIRED"}

\* The payment intents of booking b that are not fee intents and have the status.
MainIntents(b, status) ==
    {r \in 1..Len(intents) :
        /\ intents[r].booking_id = b
        /\ intents[r].status = status
        /\ intents[r].provider_ref # "pi_fee_"}

\* C2: every committed change of a booking's status is a row of the transition
\* table for the role the committing operation acts as, and no booking leaves
\* CLOSED, CANCELLED or EXPIRED.
C2_StatusChangesFollowTable ==
    [][\A b \in BookingIds :
        bookings'[b].status # bookings[b].status =>
            /\ hist'.change[b].from = bookings[b].status
            /\ hist'.change[b].to = bookings'[b].status
            /\ isValidTransition(bookings[b].status, bookings'[b].status,
                                 hist'.change[b].role)
            /\ bookings[b].status \notin TerminalStates]_vars

\* C2 witness: a booking went all the way to NEEDS_REVIEW and was closed by the admin.
C2_Witness ==
    \E b \in BookingIds :
        /\ bookings[b].status = "CLOSED"
        /\ hist.change[b].from = "NEEDS_REVIEW"
        /\ hist.change[b].role = "Admin"

\* C6: the step that commits a completeBooking changes the booking from
\* IN_PROGRESS to COMPLETE_PENDING and an intent of the booking from AUTHORIZED
\* to SUCCEEDED together, and no step of a completeBooking request makes one of
\* the two changes without the other.
C6_CompleteIsAtomic ==
    [][\A p \in Reqs :
        (req[p].op = "completeBooking" /\ req'[p] # req[p]) =>
            LET b == req[p].b
                captured == \E r \in 1..Len(intents) :
                                /\ intents[r].booking_id = b
                                /\ intents[r].status = "AUTHORIZED"
                                /\ intents'[r].status = "SUCCEEDED"
                advanced == /\ bookings[b].status = "IN_PROGRESS"
                            /\ bookings'[b].status = "COMPLETE_PENDING"
            IN /\ captured <=> advanced
               /\ intents' # intents => captured
               /\ bookings'[b].status # bookings[b].status => advanced]_vars

\* C6 witness: a completeBooking has committed; the booking is COMPLETE_PENDING
\* and its intent SUCCEEDED.
C6_Witness ==
    \E b \in BookingIds :
        /\ hist.change[b].op = "completeBooking"
        /\ bookings[b].status = "COMPLETE_PENDING"
        /\ MainIntents(b, "SUCCEEDED") # {}

\* C7: a completeBooking whose capture fails returns CAPTURE_FAILED and its
\* commit leaves the booking IN_PROGRESS and every intent as it was and appends
\* one capture_failed event and one CAPTURE_FAILED outbox row; a completeBooking
\* whose capture does not fail returns ok, and none ever rolls back.
C7_CaptureFailureIsRecorded ==
    [][\A p \in Reqs :
        /\ (req[p].op = "completeBooking" /\ req[p].res = "CAPTURE_FAILED"
                /\ req'[p] # req[p]) =>
              /\ bookings' = bookings
              /\ bookings[req[p].b].status = "IN_PROGRESS"
              /\ intents' = intents
              /\ Len(events') = Len(events) + 1
              /\ SubSeq(events', 1, Len(events)) = events
              /\ events'[Len(events')].type = "capture_failed"
              /\ events'[Len(events')].booking_id = req[p].b
              /\ outbox' = Append(outbox, Notice(req[p].b, "SYSTEM_ADMIN", "CAPTURE_FAILED"))
        /\ (req[p].pc = "complete_capture" /\ req'[p] # req[p]
                /\ IntentsSeenBy(p, req[p].b, "AUTHORIZED") # {}) =>
              /\ req'[p].res = "ok"
              /\ req'[p].wbk.status = "COMPLETE_PENDING"
        /\ req'[p].op = "completeBooking" =>
              req'[p].pc \in {"complete_find", "complete_capture", "commit"}]_vars

\* C7 witness: a capture failed and was recorded, and a later completeBooking
\* of the same booking succeeded.
C7_Witness ==
    \E b \in BookingIds :
        /\ \E i \in 1..Len(events) :
              events[i].booking_id = b /\ events[i].type = "capture_failed"
        /\ \E i \in 1..Len(outbox) :
              outbox[i].booking_id = b /\ outbox[i].type = "CAPTURE_FAILED"
        /\ hist.change[b].op = "completeBooking"
        /\ bookings[b].status = "COMPLETE_PENDING"
        /\ MainIntents(b, "SUCCEEDED") # {}

\* C8: every CLOSED booking has exactly one SUCCEEDED payment intent that is not
\* a fee intent.
C8_ClosedHasOneSucceededIntent ==
    \A b \in BookingIds :
        bookings[b].status = "CLOSED" => Cardinality(MainIntents(b, "SUCCEEDED")) = 1

\* C9: no CANCELLED booking has a SUCCEEDED payment intent other than fee intents.
C9_CancelledHasNoSucceededIntent ==
    \A b \in BookingIds :
        bookings[b].status = "CANCELLED" => MainIntents(b, "SUCCEEDED") = {}

\* C10: a booking never has more than one AUTHORIZED payment intent.
C10_AtMostOneAuthorized ==
    \A b \in BookingIds :
        Cardinality({r \in 1..Len(intents) :
            intents[r].booking_id = b /\ intents[r].status = "AUTHORIZED"}) <= 1

\* C10 witness: /pay was called twice for a booking, the webhook of the second
\* intent was delivered first and authorized it, and the webhook of the first
\* intent is being handled.
C10_Witness ==
    \E p \in Reqs :
        /\ Len(intents) = 2
        /\ intents[1].booking_id = intents[2].booking_id
        /\ intents[1].status = "CREATED"
        /\ intents[2].status = "AUTHORIZED"
        /\ req[p].op = "handleIntentSuccess"
        /\ req[p].ref = 1
        /\ req[p].pc = "his_booking"

\* C11: a step that changes a booking's non-null provider_id sets it to null and
\* is the commit of a successful providerCancelBooking; every other step of every
\* operation (updateBookingStatus in any role, cancelBooking, completeBooking,
\* flagIssue, confirm-complete, the sweeper, /pay) leaves a non-null provider_id
\* as it is.
C11_ProviderIdIsKept ==
    [][\A b \in BookingIds :
        (bookings[b].provider_id # None
            /\ bookings'[b].provider_id # bookings[b].provider_id) =>
                /\ bookings'[b].provider_id = None
                /\ bookings'[b].status = "PAID_SEARCHING"
                /\ hist'.change[b].op = "providerCancelBooking"
                /\ \E p \in Reqs : /\ req[p].op = "providerCancelBooking"
                                    /\ req[p].pc = "commit"
                                    /\ req[p].res = "ok"
                                    /\ req[p].actor = bookings[b].provider_id
                                    /\ req'[p] # req[p]]_vars

\* C11 witness: the provider who accepted kept the booking through every status
\* up to the admin's close of a flagged booking.
C11_Witness ==
    \E b \in BookingIds :
        /\ bookings[b].status = "CLOSED"
        /\ bookings[b].provider_id # None
        /\ hist.change[b].role = "Admin"
        /\ \E i \in 1..Len(events) :
              /\ events[i].to = "ACCEPTED"
              /\ events[i].actor_id = bookings[b].provider_id

(***************************************************************************)
(* Single calls: a booking at a point of its life and NumCallers clients,  *)
(* each of whom makes one call of a route or an engine operation and keeps *)
(* the response.                                                           *)
(***************************************************************************)
NumCallers == 2

\* The statuses in which a booking has a provider.
ClaimedStates ==
    {"ACCEPTED", "EN_ROUTE", "ARRIVED", "IN_PROGRESS", "COMPLETE_PENDING",
     "NEEDS_REVIEW", "CLOSED"}

\* The statuses that the operations leading a booking to a status leave its
\* payment intent in: AUTHORIZED by the webhook, SUCCEEDED by the capture of
\* /complete or /confirm-complete, CANCELLED by the release of /cancel.
IntentStatusAt(status) ==
    CASE status \in {"PENDING_PAYMENT", "EXPIRED"} -> {"CREATED"}
      [] status \in {"PAID_SEARCHING", "ACCEPTED", "EN_ROUTE", "ARRIVED", "IN_PROGRESS"} ->
            {"AUTHORIZED"}
      [] status \in {"COMPLETE_PENDING", "NEEDS_REVIEW"} -> {"AUTHORIZED", "SUCCEEDED"}
      [] status = "CLOSED" -> {"SUCCEEDED"}
      [] status = "CANCELLED" -> {"CANCELLED"}
      [] OTHER -> {}

\* The providers a booking in a status can be assigned to (None: unassigned).
ProviderAt(status) ==
    IF status \in ClaimedStates THEN CandidateList
    ELSE IF status = "CANCELLED" THEN CandidateList \cup {None}
    ELSE {None}

\* The clock when the calls arrive: for a booking that entered COMPLETE_PENDING
\* at 0, a minute before the end of the grace window, its end, a minute after.
ClockAt(status) ==
    IF status = "COMPLETE_PENDING"
    THEN {GraceMinutes - 1, GraceMinutes, GraceMinutes + 1}
    ELSE {0}

\* The row of a booking that u1 created at 0 and that has come to the status.
BookingAt(status, provider) ==
    [NoBooking EXCEPT
        !.status = status, !.customer_id = "u1", !.provider_id = provider,
        !.candidate_list = CandidateList, !.otp = "1234",
        !.complete_pending_until =
            IF status \in {"COMPLETE_PENDING", "NEEDS_REVIEW", "CLOSED"}
            THEN GraceMinutes ELSE -1,
        !.stripe_payment_intent_id = 1]

InitCalls ==
    /\ \E status \in BookingState : \E provider \in ProviderAt(status) :
       \E paid \in IntentStatusAt(status) : \E clock \in ClockAt(status) :
          /\ bookings = [b \in BookingIds |-> BookingAt(status, provider)]
          /\ intents = <<Intent("b1", paid, "pi_mock_", DefaultAmountCents)>>
          /\ now = clock
    /\ events = <<>>
    /\ outbox = <<>>
    /\ ledger = [e \in EventIds |-> None]
    /\ config = [stripe |-> FALSE]
    /\ req = [p \in 1..NumCallers |-> IdleReq]
    /\ hist = NoHist

\* The answer a handler gives without calling the engine.
Answered(p, op, b, uid, answer) ==
    [IdleReq EXCEPT !.pc = "done", !.op = op, !.b = b, !.actor = uid,
                    !.from = bookings[b].status, !.res = answer]

\* provider-complete: 404, 403 or 400 after getBooking.
ProviderCompleteAnswer(p, b, uid) ==
    /\ req[p].pc = "idle"
    /\ ProviderCompleteCheck(bookings[b], uid) # "ok"
    /\ req' = [req EXCEPT ![p] =
            Answered(p, "provider-complete", b, uid, ProviderCompleteCheck(bookings[b], uid))]
    /\ UNCHANGED <<bookings, intents, events, outbox, ledger, now, config, hist>>

\* confirm-complete: 404, 403, the success of a CLOSED booking, or 400.
ConfirmCompleteAnswer(p, b, uid) ==
    /\ req[p].pc = "idle"
    /\ ConfirmCompleteCheck(bookings[b], uid) # "ok"
    /\ req' = [req EXCEPT ![p] =
            Answered(p, "confirm-complete", b, uid, ConfirmCompleteCheck(bookings[b], uid))]
    /\ UNCHANGED <<bookings, intents, events, outbox, ledger, now, config, hist>>

OneStatusCall(p) ==
    \E b \in BookingIds : \E route \in StatusRoutes : \E role \in route.roles :
    \E uid \in Callers(role) :
    \E otp \in IF route.to = "IN_PROGRESS" THEN Otps \cup {NoOtp} ELSE {NoOtp} :
        UbsSelect(p, b, route.to, role, uid, otp, TRUE)

OneCancelCall(p) ==
    \E b \in BookingIds : \E role \in {"User", "Provider", "Admin"} :
    \E uid \in Callers(role) : CancelSelect(p, b, role, uid, TRUE)

OneProviderCancelCall(p) ==
    \E b \in BookingIds : \E uid \in CallingProviders : providerCancelBooking(p, b, uid, TRUE)

OneFlagCall(p) ==
    \E b \in BookingIds : \E uid \in Customers : flagIssue(p, b, uid, TRUE)

OneCompleteCall(p) ==
    \E b \in BookingIds : \E uid \in CallingProviders : CompleteSelect(p, b, uid, TRUE)

OneProviderCompleteCall(p) ==
    \E b \in BookingIds : \E uid \in CallingProviders : ProviderCompleteGet(p, b, uid)

OneProviderCompleteAnswer(p) ==
    \E b \in BookingIds : \E uid \in CallingProviders : ProviderCompleteAnswer(p, b, uid)

OneConfirmCompleteCall(p) ==
    \E b \in BookingIds : \E uid \in Customers : ConfirmCompleteGet(p, b, uid)

OneConfirmCompleteAnswer(p) ==
    \E b \in BookingIds : \E uid \in Customers : ConfirmCompleteAnswer(p, b, uid)

NextCalls ==
    \/ \E p \in Reqs : OneStatusCall(p)
    \/ \E p \in Reqs : UbsUpdate(p)
    \/ \E p \in Reqs : OneCancelCall(p)
    \/ \E p \in Reqs : CancelWrite(p)
    \/ \E p \in Reqs : OneProviderCancelCall(p)
    \/ \E p \in Reqs : OneFlagCall(p)
    \/ \E p \in Reqs : OneCompleteCall(p)
    \/ \E p \in Reqs : CompleteFind(p)
    \/ \E p \in Reqs : CompleteCapture(p)
    \/ \E p \in Reqs : OneProviderCompleteCall(p)
    \/ \E p \in Reqs : OneProviderCompleteAnswer(p)
    \/ \E p \in Reqs : ProviderCompleteUpdate(p, TRUE)
    \/ \E p \in Reqs : OneConfirmCompleteCall(p)
    \/ \E p \in Reqs : OneConfirmCompleteAnswer(p)
    \/ \E p \in Reqs : ConfirmCompleteFind(p, TRUE)
    \/ \E p \in Reqs : ConfirmCompleteCapture(p, TRUE)
    \/ \E p \in Reqs : ConfirmCompleteClose(p, TRUE)
    \/ \E p \in Reqs : TxCommit(p, TRUE)

SpecCalls == InitCalls /\ [][NextCalls]_vars

(***************************************************************************)
(* Properties of single calls.                                             *)
(***************************************************************************)
\* The step changes no table.
TablesUnchanged == UNCHANGED <<bookings, intents, events, outbox, ledger>>

\* C12: a step that changes a booking from ARRIVED to IN_PROGRESS is the commit
\* of a call whose OTP equals the OTP stored on the booking; and a call to start
\* an ARRIVED booking with a missing or different OTP returns the OTP error at
\* once and changes no table (status, provider_id and events stay as they were).
C12_StartNeedsTheOtp ==
    [][\A b \in BookingIds :
        /\ (bookings[b].status = "ARRIVED" /\ bookings'[b].status = "IN_PROGRESS") =>
              \E p \in Reqs :
                  /\ req[p].pc = "commit" /\ req'[p].pc = "done"
                  /\ req[p].b = b /\ req[p].to = "IN_PROGRESS"
                  /\ req[p].otp = bookings[b].otp
                  /\ req'[p].res = "ok"
        /\ \A p \in Reqs :
              (/\ req[p].pc = "idle" /\ req'[p].op = "updateBookingStatus"
               /\ req'[p].b = b /\ req'[p].to = "IN_PROGRESS"
               /\ bookings[b].status = "ARRIVED"
               /\ req'[p].otp # bookings[b].otp) =>
                  /\ req'[p].pc = "done"
                  /\ req'[p].res = "Invalid or missing OTP"
                  /\ TablesUnchanged]_vars

\* C12 witness: the assigned provider was refused with a different OTP and the
\* booking was still ARRIVED when the same provider started it with the stored one.
C12_Witness ==
    \E p, q \in Reqs : \E b \in BookingIds :
        /\ req[p].pc = "done" /\ req[p].to = "IN_PROGRESS" /\ req[p].b = b
        /\ req[p].otp \notin {NoOtp, bookings[b].otp}
        /\ req[p].actor = bookings[b].provider_id
        /\ req[p].res = "Invalid or missing OTP"
        /\ req[q].pc = "done" /\ req[q].to = "IN_PROGRESS" /\ req[q].b = b
        /\ req[q].from = "ARRIVED" /\ req[q].otp = bookings[b].otp
        /\ req[q].res = "ok"
        /\ bookings[b].status = "IN_PROGRESS"
        /\ Len(events) = 1

\* C13: a call in Provider role (updateBookingStatus, completeBooking,
\* providerCancelBooking, cancelBooking) on a booking whose provider_id is
\* non-null and differs from the caller's uid is rejected when it reads the row,
\* and changes no booking, payment intent or event.
C13_OnlyAssignedProviderActs ==
    [][\A p \in Reqs :
        (/\ req[p].role = None /\ req'[p].role = "Provider"
         /\ bookings[req'[p].b].provider_id \notin {None, req'[p].actor}) =>
            /\ req'[p].pc = "done"
            /\ req'[p].res # "ok"
            /\ TablesUnchanged]_vars

\* C14: an accept call by a provider who is not in the booking's candidate_list
\* returns an error when it reads the row, whatever the booking's status, and
\* changes no table; and a booking that becomes ACCEPTED is given a provider of
\* its candidate_list.
C14_NonCandidateNeverAccepts ==
    [][/\ \A p \in Reqs :
            (/\ req[p].pc = "idle" /\ req'[p].op = "updateBookingStatus"
             /\ req'[p].to = "ACCEPTED"
             /\ req'[p].actor \notin bookings[req'[p].b].candidate_list) =>
                /\ req'[p].pc = "done"
                /\ req'[p].res # "ok"
                /\ TablesUnchanged
       /\ \A b \in BookingIds :
            (bookings[b].status # "ACCEPTED" /\ bookings'[b].status = "ACCEPTED") =>
                bookings'[b].provider_id \in bookings[b].candidate_list]_vars

\* C14 witness: a provider outside the candidate list tried to accept a
\* PAID_SEARCHING booking and was refused for that reason; a candidate then
\* accepted it.
C14_Witness ==
    \E p, q \in Reqs : \E b \in BookingIds :
        /\ req[p].pc = "done" /\ req[p].b = b /\ req[p].to = "ACCEPTED"
        /\ req[p].from = "PAID_SEARCHING"
        /\ req[p].actor \notin bookings[b].candidate_list
        /\ req[p].res = "Provider is not in the candidate list for this booking"
        /\ req[q].pc = "done" /\ req[q].b = b /\ req[q].to = "ACCEPTED"
        /\ req[q].res = "ok"
        /\ bookings[b].status = "ACCEPTED"
        /\ bookings[b].provider_id = req[q].actor

\* C15: the commit of a successful cancelBooking by the owning customer leaves
\* the booking CANCELLED and every intent of the booking that was AUTHORIZED
\* CANCELLED, the other intents as they were; it appends exactly one intent, of
\* FeeCents cents, SUCCEEDED, with a pi_fee_ reference, when the status before
\* was EN_ROUTE or ARRIVED, and none when it was PENDING_PAYMENT, PAID_SEARCHING
\* or ACCEPTED.
C15_CustomerCancelEffects ==
    [][\A p \in Reqs :
        (/\ req[p].op = "cancelBooking" /\ req[p].role = "User"
         /\ req[p].pc = "commit" /\ req'[p] # req[p]) =>
            LET b == req[p].b
            IN /\ bookings[b].customer_id = req[p].actor
               /\ bookings'[b].status = "CANCELLED"
               /\ \A r \in 1..Len(intents) :
                     intents[r].booking_id = b =>
                        intents'[r].status =
                            IF intents[r].status = "AUTHORIZED" THEN "CANCELLED"
                            ELSE intents[r].status
               /\ IF bookings[b].status \in {"EN_ROUTE", "ARRIVED"}
                  THEN /\ Len(intents') = Len(intents) + 1
                       /\ intents'[Len(intents')] =
                            Intent(b, "SUCCEEDED", "pi_fee_", FeeCents)
                  ELSE /\ Len(intents') = Len(intents)
                       /\ bookings[b].status \in
                            {"PENDING_PAYMENT", "PAID_SEARCHING", "ACCEPTED"}]_vars

\* C16: the commit of a cancelBooking in Provider role appends no payment
\* intent, whether the booking was ACCEPTED, EN_ROUTE or ARRIVED before.
C16_ProviderCancelChargesNoFee ==
    [][\A p \in Reqs :
        (/\ req[p].op = "cancelBooking" /\ req[p].role = "Provider"
         /\ req[p].pc = "commit" /\ req'[p] # req[p]) =>
            /\ bookings[req[p].b].status \in {"ACCEPTED", "EN_ROUTE", "ARRIVED"}
            /\ Len(intents') = Len(intents)]_vars

\* C17: a providerCancelBooking by the assigned provider on an ACCEPTED or
\* EN_ROUTE booking succeeds, and its commit sets the status to PAID_SEARCHING
\* and provider_id to null, leaves every other column but updated_at (so the
\* candidate_list) and every payment intent as they were, and appends one
\* provider_cancelled event and one PROVIDER_CANCELLED outbox row addressed to
\* the customer; a call by anyone else or on a booking in another status
\* returns an error at once and changes no table.
C17_ProviderCancelRedispatches ==
    [][\A p \in Reqs :
        /\ (req[p].pc = "idle" /\ req'[p].op = "providerCancelBooking") =>
              LET row == bookings[req'[p].b]
              IN IF row.provider_id = req'[p].actor
                    /\ row.status \in {"ACCEPTED", "EN_ROUTE"}
                 THEN req'[p].pc = "commit" /\ req'[p].res = "ok"
                 ELSE /\ req'[p].pc = "done"
                      /\ req'[p].res # "ok"
                      /\ TablesUnchanged
        /\ (req[p].op = "providerCancelBooking" /\ req[p].pc = "commit"
                /\ req'[p] # req[p]) =>
              LET b == req[p].b
              IN /\ bookings[b].status \in {"ACCEPTED", "EN_ROUTE"}
                 /\ bookings[b].provider_id = req[p].actor
                 /\ bookings'[b] = [bookings[b] EXCEPT
                        !.status = "PAID_SEARCHING", !.provider_id = None,
                        !.updated_at = bookings'[b].updated_at]
                 /\ intents' = intents
                 /\ events' = Append(events,
                        Event(b, "provider_cancelled", "Provider", req[p].actor,
                              bookings[b].status, "PAID_SEARCHING"))
                 /\ outbox' = Append(outbox,
                        Notice(b, bookings[b].customer_id, "PROVIDER_CANCELLED"))
                 /\ req'[p].res = "ok"]_vars

\* C17 witness: the assigned provider cancelled an EN_ROUTE booking, which is
\* PAID_SEARCHING without a provider, and another provider's call was refused.
C17_Witness ==
    \E p, q \in Reqs : \E b \in BookingIds :
        /\ req[p].pc = "done" /\ req[p].op = "providerCancelBooking" /\ req[p].b = b
        /\ req[p].from = "EN_ROUTE" /\ req[p].res = "ok"
        /\ req[q].pc = "done" /\ req[q].op = "providerCancelBooking" /\ req[q].b = b
        /\ req[q].from = "EN_ROUTE" /\ req[q].actor # req[p].actor
        /\ req[q].res = "Unauthorized: You are not the assigned provider"
        /\ bookings[b].status = "PAID_SEARCHING"
        /\ bookings[b].provider_id = None
        /\ bookings[b].candidate_list = CandidateList
        /\ Len(outbox) = 1
        /\ outbox[1].recipient_uid = bookings[b].customer_id

\* C18: a flagIssue call succeeds exactly when the caller is the booking's
\* customer, the status is COMPLETE_PENDING and the clock is not after
\* complete_pending_until; the commit of a successful call makes the booking
\* NEEDS_REVIEW and appends one issue_flagged event and one ISSUE_FLAGGED outbox
\* row, and nothing else; every other call returns an error at once with no
\* table changed, and the customer's call after complete_pending_until is
\* refused for the closed window with the booking left COMPLETE_PENDING.
C18_FlagOnlyInsideTheWindow ==
    [][\A p \in Reqs :
        /\ (req[p].pc = "idle" /\ req'[p].op = "flagIssue") =>
              LET row == bookings[req'[p].b]
              IN IF /\ row.customer_id = req'[p].actor
                    /\ row.status = "COMPLETE_PENDING"
                    /\ now <= row.complete_pending_until
                 THEN req'[p].pc = "commit" /\ req'[p].res = "ok"
                 ELSE /\ req'[p].pc = "done"
                      /\ req'[p].res # "ok"
                      /\ TablesUnchanged
                      /\ (/\ row.customer_id = req'[p].actor
                          /\ row.status = "COMPLETE_PENDING") =>
                            /\ now > row.complete_pending_until
                            /\ req'[p].res = "Grace window for flagging issues has closed"
                            /\ bookings'[req'[p].b].status = "COMPLETE_PENDING"
        /\ (req[p].op = "flagIssue" /\ req[p].pc = "commit" /\ req'[p] # req[p]) =>
              LET b == req[p].b
              IN /\ bookings[b].status = "COMPLETE_PENDING"
                 /\ bookings[b].customer_id = req[p].actor
                 /\ now <= bookings[b].complete_pending_until
                 /\ bookings'[b] = [bookings[b] EXCEPT
                        !.status = "NEEDS_REVIEW",
                        !.updated_at = bookings'[b].updated_at]
                 /\ intents' = intents
                 /\ events' = Append(events,
                        Event(b, "issue_flagged", "User", req[p].actor,
                              "COMPLETE_PENDING", "NEEDS_REVIEW"))
                 /\ outbox' = Append(outbox, Notice(b, "SYSTEM_ADMIN", "ISSUE_FLAGGED"))
                 /\ req'[p].res = "ok"]_vars

\* C18 witness: the customer flagged an issue in the last minute of the grace
\* window, after a stranger's flag was refused; the booking is NEEDS_REVIEW.
C18_Witness ==
    \E p, q \in Reqs : \E b \in BookingIds :
        /\ now = bookings[b].complete_pending_until
        /\ req[p].pc = "done" /\ req[p].op = "flagIssue" /\ req[p].b = b
        /\ req[p].actor = bookings[b].customer_id /\ req[p].res = "ok"
        /\ req[q].pc = "done" /\ req[q].op = "flagIssue" /\ req[q].b = b
        /\ req[q].from = "COMPLETE_PENDING"
        /\ req[q].res = "Unauthorized: You are not the owner of this booking"
        /\ bookings[b].status = "NEEDS_REVIEW"
        /\ Len(events) = 1 /\ events[1].type = "issue_flagged"
        /\ Len(outbox) = 1 /\ outbox[1].type = "ISSUE_FLAGGED"

\* C19: a confirm-complete call by the owning customer on a booking that is
\* CLOSED is answered with success at once: no capture is attempted, and no
\* booking, payment intent, event or outbox row changes, however many such calls
\* are made.
C19_ConfirmCompleteIsIdempotent ==
    [][\A p \in Reqs :
        (/\ req[p].pc = "idle" /\ req'[p].op = "confirm-complete"
         /\ bookings[req'[p].b].status = "CLOSED"
         /\ bookings[req'[p].b].customer_id = req'[p].actor) =>
            /\ req'[p].pc = "done"
            /\ req'[p].res = AlreadyClosed
            /\ TablesUnchanged]_vars

\* C19 witness: the customer's confirm-complete captured and closed a
\* COMPLETE_PENDING booking, and the customer's second confirm-complete was
\* answered with success; one intent, SUCCEEDED, and one event.
C19_Witness ==
    \E p, q \in Reqs : \E b \in BookingIds :
        /\ req[p].pc = "done" /\ req[p].op = "confirm-complete" /\ req[p].b = b
        /\ req[p].from = "COMPLETE_PENDING" /\ req[p].res = "ok"
        /\ req[q].pc = "done" /\ req[q].op = "confirm-complete" /\ req[q].b = b
        /\ req[q].from = "CLOSED" /\ req[q].res = AlreadyClosed
        /\ req[q].actor = bookings[b].customer_id
        /\ bookings[b].status = "CLOSED"
        /\ Len(intents) = 1 /\ intents[1].status = "SUCCEEDED"
        /\ Len(events) = 1

SweepTicks == 2

SweptIds == {"b1", "b2"}

\* The row of a booking created at minute c that has come to a status.
SweptRow(status, provider, c) ==
    [BookingAt(status, provider) EXCEPT !.created_at = c, !.updated_at = c]

\* The rows a table can hold at time t: an EXPIRED row was stale when swept.
SweptRows(t) ==
    {SweptRow(status, provider, c) :
        status \in BookingState, provider \in CandidateList \cup {None},
        c \in 0..SweepTicks}

InitSweep ==
    /\ now = SweepAgeMinutes + 1
    /\ bookings \in [SweptIds -> SweptRows(now)]
    /\ \A b \in SweptIds :
          /\ bookings[b].provider_id \in ProviderAt(bookings[b].status)
          /\ bookings[b].status = "EXPIRED" =>
                bookings[b].created_at < now - SweepAgeMinutes
    /\ intents = <<>>
    /\ events = <<>>
    /\ outbox = <<>>
    /\ ledger = [e \in EventIds |-> None]
    /\ config = [stripe |-> FALSE]
    /\ req = [p \in 1..NumCallers |-> IdleReq]
    /\ hist = NoHist

SweepCall(p) ==
    /\ req[p].pc = "idle"
    /\ bookings' = SweepRows(bookings, now)
    /\ req' = [req EXCEPT ![p] =
            [IdleReq EXCEPT !.pc = "done", !.op = "sweepExpiredBookings",
                            !.role = "Admin", !.res = SweepCount(bookings, now)]]
    /\ UNCHANGED <<intents, events, outbox, ledger, now, config, hist>>

SweepTick ==
    /\ now < SweepAgeMinutes + 1 + SweepTicks
    /\ now' = now + 1
    /\ UNCHANGED <<bookings, intents, events, outbox, ledger, config, req, hist>>

NextSweep ==
    \/ \E p \in DOMAIN req : SweepCall(p)
    \/ SweepTick

SpecSweep == InitSweep /\ [][NextSweep]_vars

\* C21: a sweep sets to EXPIRED exactly the bookings that are PENDING_PAYMENT and
\* were created more than 24 hours before now, leaves every other booking (and
\* every column of a swept booking but status and updated_at) as it was, and
\* returns the number of bookings it changed.
C21_SweepExpiresExactlyTheStale ==
    [][\A p \in DOMAIN req :
          (req[p].pc = "idle" /\ req'[p].pc = "done"
           /\ req'[p].op = "sweepExpiredBookings") =>
             /\ \A b \in DOMAIN bookings :
                   IF /\ bookings[b].status = "PENDING_PAYMENT"
                      /\ now - bookings[b].created_at > SweepAgeMinutes
                   THEN bookings'[b] =
                           [bookings[b] EXCEPT !.status = "EXPIRED", !.updated_at = now]
                   ELSE bookings'[b] = bookings[b]
             /\ req'[p].res =
                   Cardinality({b \in DOMAIN bookings : bookings'[b] # bookings[b]})]_vars

\* A sweep that expired b1 and returned 1 while b2, a minute younger, stays unpaid.
C21_Witness ==
    /\ \E p \in DOMAIN req :
          req[p].pc = "done" /\ req[p].op = "sweepExpiredBookings" /\ req[p].res = 1
    /\ bookings["b1"].status = "EXPIRED" /\ bookings["b1"].updated_at = now
    /\ bookings["b2"].status = "PENDING_PAYMENT"
    /\ bookings["b2"].created_at = bookings["b1"].created_at + 1

(***************************************************************************)
(* GET /v1/bookings/:id (app.ts:343-370): the view of one booking. The     *)
(* caller is the pair (uid, role) of the request; the response is the      *)
(* status code and the body, a record with the fields that are sent.       *)
(***************************************************************************)
HttpRoles == {"user", "provider", "admin"}

\* { ...booking } without the otp property (delete response.otp).
WithoutOtp(row) == [f \in DOMAIN row \ {"otp"} |-> row[f]]

GetBookingResponse_OtpForTheProvider(row, uid, role) ==
    LET isCustomer == row.customer_id = uid
        isAssignedProvider == row.provider_id = uid
        isCandidate == uid \in row.candidate_list
        isAdmin == role = "admin"
    IN  IF row.status = "NULL"
        THEN [code |-> 404, body |-> [error |-> "Booking not found"]]
        ELSE IF ~isCustomer /\ ~isAssignedProvider /\ ~isCandidate /\ ~isAdmin
        THEN [code |-> 403, body |-> [error |-> "Unauthorized"]]
        ELSE IF ~isCustomer /\ ~isAdmin /\ ~isAssignedProvider
        THEN [code |-> 200, body |-> WithoutOtp(row)]
        ELSE [code |-> 200, body |-> row]

GetBookingResponse(row, uid, role) ==
    LET isCustomer == row.customer_id = uid
        isAssignedProvider == row.provider_id = uid
        isCandidate == uid \in row.candidate_list
        isAdmin == role = "admin"
    IN  IF row.status = "NULL"
        THEN [code |-> 404, body |-> [error |-> "Booking not found"]]
        ELSE IF ~isCustomer /\ ~isAssignedProvider /\ ~isCandidate /\ ~isAdmin
        THEN [code |-> 403, body |-> [error |-> "Unauthorized"]]
        ELSE IF ~isCustomer /\ ~isAdmin
        THEN [code |-> 200, body |-> WithoutOtp(row)]
        ELSE [code |-> 200, body |-> row]

GetBookingCall(p, b, uid, role) ==
    /\ req[p].pc = "idle"
    /\ req' = [req EXCEPT ![p] =
            [IdleReq EXCEPT !.pc = "done", !.op = "getBooking", !.b = b,
                            !.role = role, !.actor = uid,
                            !.res = GetBookingResponse(bookings[b], uid, role)]]
    /\ UNCHANGED <<bookings, intents, events, outbox, ledger, now, config, hist>>

\* A booking in each status, with either OTP, or no booking at all.
InitRead ==
    /\ \/ \E status \in BookingState : \E provider \in ProviderAt(status) :
          \E otp \in Otps :
             bookings = [b \in BookingIds |->
                            [BookingAt(status, provider) EXCEPT !.otp = otp]]
       \/ bookings = [b \in BookingIds |-> NoBooking]
    /\ intents = <<>>
    /\ events = <<>>
    /\ outbox = <<>>
    /\ ledger = [e \in EventIds |-> None]
    /\ now = 0
    /\ config = [stripe |-> FALSE]
    /\ req = [p \in 1..NumCallers |-> IdleReq]
    /\ hist = NoHist

\* getProviderBookings (bookings.ts:200-228): SELECT * FROM bookings WHERE
\* provider_id = $1 [AND status = $2]; the rows are returned as they are. With
\* the table's bookings the limit of 20 is not reached and the offset is 0.
getProviderBookings(table, providerId, status) ==
    {table[b] : b \in {c \in DOMAIN table :
                          /\ table[c].status # "NULL"
                          /\ table[c].provider_id = providerId
                          /\ status # None => table[c].status = status}}

\* GET /v1/bookings/claimed (app.ts:327-339), for callers of role provider.
GetClaimedCall(p, uid, status) ==
    /\ req[p].pc = "idle"
    /\ req' = [req EXCEPT ![p] =
            [IdleReq EXCEPT !.pc = "done", !.op = "getProviderBookings",
                            !.role = "provider", !.actor = uid, !.to = status,
                            !.res = [code |-> 200,
                                     body |-> getProviderBookings(bookings, uid, status)]]]
    /\ UNCHANGED <<bookings, intents, events, outbox, ledger, now, config, hist>>

NextRead ==
    \/ \E p \in DOMAIN req : \E b \in BookingIds :
       \E uid \in Customers \cup CallingProviders \cup Admins : \E role \in HttpRoles :
          GetBookingCall(p, b, uid, role)
    \/ \E p \in DOMAIN req : \E uid \in CallingProviders :
       \E status \in BookingState \cup {None} :
          GetClaimedCall(p, uid, status)

SpecRead == InitRead /\ [][NextRead]_vars

\* C22: the response of GET /bookings/:id for a booking contains the booking's otp
\* if and only if the caller is the booking's customer or has the admin role; for
\* any other caller (the assigned provider, a candidate) the response is the same
\* whatever the booking's otp is.
C22_OtpOnlyForCustomerAndAdmin ==
    \A p \in DOMAIN req :
        (req[p].pc = "done" /\ req[p].op = "getBooking"
         /\ bookings[req[p].b].status # "NULL") =>
            LET row == bookings[req[p].b]
                uid == req[p].actor
                role == req[p].role
                privileged == row.customer_id = uid \/ role = "admin"
            IN  /\ ("otp" \in DOMAIN req[p].res.body /\ req[p].res.body.otp = row.otp)
                      <=> privileged
                /\ ~privileged =>
                      \A otp \in Otps :
                          GetBookingResponse([row EXCEPT !.otp = otp], uid, role) = req[p].res

\* The assigned provider and the customer have both read an ARRIVED booking: the
\* provider's body has no otp, the customer's has it.
C22_Witness ==
    /\ bookings["b1"].status = "ARRIVED"
    /\ \E p, q \in DOMAIN req :
          /\ req[p].pc = "done" /\ req[p].op = "getBooking"
          /\ req[p].actor = bookings["b1"].provider_id /\ req[p].role = "provider"
          /\ req[p].res.code = 200 /\ "otp" \notin DOMAIN req[p].res.body
          /\ req[q].pc = "done" /\ req[q].op = "getBooking"
          /\ req[q].actor = bookings["b1"].customer_id /\ req[q].role = "user"
          /\ req[q].res.code = 200 /\ req[q].res.body.otp = bookings["b1"].otp

(***************************************************************************)
(* The end of a booking's life under fairness. The service is IN_PROGRESS  *)
(* and its payment authorized; the operations are those of the API that    *)
(* act on such a booking. The two routes that end in CLOSED, POST          *)
(* /confirm-complete and POST /close, are called again and again (strong   *)
(* fairness: a client retries whenever a connection is free); every other  *)
(* call but the customer's issue flag, every handler in flight and the     *)
(* clock proceed when they can (weak fairness: the event loop runs every   *)
(* pending callback). The source starts no timer (index.ts, app.ts), so    *)
(* these are all the steps there are.                                      *)
(***************************************************************************)
InitClose ==
    /\ \E provider \in CandidateList :
          bookings = [b \in BookingIds |-> BookingAt("IN_PROGRESS", provider)]
    /\ config \in {[stripe |-> FALSE], [stripe |-> TRUE]}
    /\ intents = <<Intent("b1", "AUTHORIZED", IntentRefPrefix, DefaultAmountCents)>>
    /\ events = <<>>
    /\ outbox = <<>>
    /\ ledger = [e \in EventIds |-> None]
    /\ now = 0
    /\ req = [p \in 1..NumRequests |-> IdleReq]
    /\ hist = NoHist

NextClose ==
    \/ \E p \in Reqs : PayCall(p)
    \/ \E p \in Reqs : PayUpdateBooking(p)
    \/ \E p \in Reqs : WebhookCall(p)
    \/ \E p \in Reqs : HisUpdateBooking(p, FALSE)
    \/ \E p \in Reqs : StatusCall(p)
    \/ \E p \in Reqs : UbsUpdate(p)
    \/ \E p \in Reqs : CancelCall(p)
    \/ \E p \in Reqs : CancelWrite(p)
    \/ \E p \in Reqs : FlagCall(p)
    \/ \E p \in Reqs : CompleteCall(p)
    \/ \E p \in Reqs : CompleteFind(p)
    \/ \E p \in Reqs : CompleteCapture(p)
    \/ \E p \in Reqs : ProviderCompleteCall(p)
    \/ \E p \in Reqs : ProviderCompleteUpdate(p, FALSE)
    \/ \E p \in Reqs : ConfirmCompleteCall(p)
    \/ \E p \in Reqs : ConfirmCompleteFind(p, FALSE)
    \/ \E p \in Reqs : ConfirmCompleteCapture(p, FALSE)
    \/ \E p \in Reqs : ConfirmCompleteClose(p, FALSE)
    \/ \E p \in Reqs : TxCommit(p, FALSE)
    \/ Tick

Fairness ==
    /\ SF_vars(\E p \in Reqs : ConfirmCompleteCall(p))
    /\ SF_vars(\E p \in Reqs : StatusCall(p))
    /\ WF_vars(\E p \in Reqs : PayCall(p))
    /\ WF_vars(\E p \in Reqs : PayUpdateBooking(p))
    /\ WF_vars(\E p \in Reqs : WebhookCall(p))
    /\ WF_vars(\E p \in Reqs : HisUpdateBooking(p, FALSE))
    /\ WF_vars(\E p \in Reqs : UbsUpdate(p))
    /\ WF_vars(\E p \in Reqs : CancelCall(p))
    /\ WF_vars(\E p \in Reqs : CancelWrite(p))
    /\ WF_vars(\E p \in Reqs : CompleteCall(p))
    /\ WF_vars(\E p \in Reqs : CompleteFind(p))
    /\ WF_vars(\E p \in Reqs : CompleteCapture(p))
    /\ WF_vars(\E p \in Reqs : ProviderCompleteCall(p))
    /\ WF_vars(\E p \in Reqs : ProviderCompleteUpdate(p, FALSE))
    /\ WF_vars(\E p \in Reqs : ConfirmCompleteFind(p, FALSE))
    /\ WF_vars(\E p \in Reqs : ConfirmCompleteCapture(p, FALSE))
    /\ WF_vars(\E p \in Reqs : ConfirmCompleteClose(p, FALSE))
    /\ WF_vars(\E p \in Reqs : TxCommit(p, FALSE))
    /\ WF_vars(Tick)

SpecClose == InitClose /\ [][NextClose]_vars /\ Fairness

\* C23: a booking that is COMPLETE_PENDING through completeBooking (its payment
\* captured) eventually is CLOSED, unless the customer flags an issue (NEEDS_REVIEW).
C23_CapturedCompletionCloses ==
    \A b \in BookingIds :
        (bookings[b].status = "COMPLETE_PENDING" /\ hist.change[b].op = "completeBooking")
            ~> (bookings[b].status \in {"CLOSED", "NEEDS_REVIEW"})

(***************************************************************************)
(* isValidTransition as a function of its three arguments                  *)
(* (state-machine.ts:69-74): a caller asks about one (from, to, role) and  *)
(* keeps the answer.                                                       *)
(***************************************************************************)
InitTransition ==
    /\ bookings = [b \in BookingIds |-> NoBooking]
    /\ intents = <<>>
    /\ events = <<>>
    /\ outbox = <<>>
    /\ ledger = [e \in EventIds |-> None]
    /\ now = 0
    /\ config = [stripe |-> FALSE]
    /\ req = [p \in {1} |-> IdleReq]
    /\ hist = NoHist

TransitionQuery(p, from, to, role) ==
    /\ req[p].pc = "idle"
    /\ req' = [req EXCEPT ![p] =
            [IdleReq EXCEPT !.pc = "done", !.op = "isValidTransition",
                            !.from = from, !.to = to, !.role = role,
                            !.res = isValidTransition(from, to, role)]]
    /\ UNCHANGED <<bookings, intents, events, outbox, ledger, now, config, hist>>

NextTransition ==
    \E p \in DOMAIN req : \E from \in BookingState \cup {"NULL"} :
    \E to \in BookingState : \E role \in UserRole :
        TransitionQuery(p, from, to, role)

SpecTransition == InitTransition /\ [][NextTransition]_vars

\* C24: for every from in the 11 states and NULL, every to and every role,
\* isValidTransition(from, to, role) is true exactly for the 23 rows of the
\* transition table (a row "User or Provider" or "CLOSED or CANCELLED" counts as
\* two); no row starts from CLOSED, CANCELLED or EXPIRED.
C24_ValidExactlyForTheTable ==
    LET table ==
          {<<"NULL", "PENDING_PAYMENT", "User">>,
           <<"PENDING_PAYMENT", "PAID_SEARCHING", "System">>,
           <<"PENDING_PAYMENT", "CANCELLED", "User">>,
           <<"PENDING_PAYMENT", "EXPIRED", "System">>,
           <<"PAID_SEARCHING", "ACCEPTED", "Provider">>,
           <<"PAID_SEARCHING", "CANCELLED", "User">>,
           <<"PAID_SEARCHING", "EXPIRED", "System">>,
           <<"ACCEPTED", "EN_ROUTE", "Provider">>,
           <<"ACCEPTED", "PAID_SEARCHING", "Provider">>,
           <<"ACCEPTED", "CANCELLED", "User">>,
           <<"ACCEPTED", "CANCELLED", "Provider">>,
           <<"EN_ROUTE", "ARRIVED", "Provider">>,
           <<"EN_ROUTE", "PAID_SEARCHING", "Provider">>,
           <<"EN_ROUTE", "CANCELLED", "User">>,
           <<"EN_ROUTE", "CANCELLED", "Provider">>,
           <<"ARRIVED", "IN_PROGRESS", "Provider">>,
           <<"ARRIVED", "CANCELLED", "User">>,
           <<"ARRIVED", "CANCELLED", "Provider">>,
           <<"IN_PROGRESS", "COMPLETE_PENDING", "Provider">>,
           <<"COMPLETE_PENDING", "CLOSED", "System">>,
           <<"COMPLETE_PENDING", "NEEDS_REVIEW", "User">>,
           <<"NEEDS_REVIEW", "CLOSED", "Admin">>,
           <<"NEEDS_REVIEW", "CANCELLED", "Admin">>}
    IN  \A p \in DOMAIN req :
            (req[p].pc = "done" /\ req[p].op = "isValidTransition") =>
                /\ req[p].res = TRUE <=>
                      <<req[p].from, req[p].to, req[p].role>> \in table
                /\ req[p].from \in TerminalStates => req[p].res = FALSE

\* The caller was told that CLOSED -> NEEDS_REVIEW is not valid for Admin.
C24_Witness ==
    \E p \in DOMAIN req :
        /\ req[p].pc = "done" /\ req[p].op = "isValidTransition"
        /\ req[p].from = "CLOSED" /\ req[p].to = "NEEDS_REVIEW"
        /\ req[p].role = "Admin" /\ req[p].res = FALSE

(***************************************************************************)
(* Properties of the API: the grace window, capture, the webhook handler,  *)
(* cancellation and the sweeper under interleaving.                        *)
(***************************************************************************)
\* C25: while a booking is COMPLETE_PENDING, complete_pending_until minus
\* updated_at is 30 minutes.
C25_GraceWindowIsThirtyMinutes ==
    \A b \in BookingIds :
        bookings[b].status = "COMPLETE_PENDING" =>
            bookings[b].complete_pending_until - bookings[b].updated_at = GraceMinutes

\* C26: a payment intent that is not a fee intent is SUCCEEDED only if its booking
\* has been IN_PROGRESS at some earlier point (the event log holds the booking's
\* transition to IN_PROGRESS): capture is never applied before.
C26_CaptureOnlyAfterInProgress ==
    \A r \in 1..Len(intents) :
        (intents[r].status = "SUCCEEDED" /\ intents[r].provider_ref # "pi_fee_") =>
            \E i \in 1..Len(events) :
                /\ events[i].booking_id = intents[r].booking_id
                /\ events[i].to = "IN_PROGRESS"

\* A main intent is SUCCEEDED, captured by confirm-complete, while another intent
\* of the booking was never authorized.
C26_Witness ==
    \E b \in BookingIds :
        /\ MainIntents(b, "SUCCEEDED") # {}
        /\ MainIntents(b, "CREATED") # {}
        /\ bookings[b].status = "CLOSED"
        /\ hist.change[b].op = "confirm-complete"

\* C27: handleIntentSuccess applies both of its effects or neither: in no state of
\* the tables is a booking PAID_SEARCHING by the handler while none of its intents
\* is AUTHORIZED (the handler's intent is still CREATED), and in none is an intent
\* AUTHORIZED while its booking is still PENDING_PAYMENT.
C27_WebhookEffectsAreAtomic ==
    /\ \A b \in BookingIds :
          (bookings[b].status = "PAID_SEARCHING"
           /\ hist.change[b].op = "handleIntentSuccess") =>
              MainIntents(b, "AUTHORIZED") # {}
    /\ \A r \in 1..Len(intents) :
          intents[r].status = "AUTHORIZED" =>
              bookings[intents[r].booking_id].status # "PENDING_PAYMENT"

\* C28: in every state in which a booking is CANCELLED, none of its payment
\* intents is AUTHORIZED, whatever the interleaving of cancelBooking with the
\* authorization webhook.
C28_CancelledHasNoAuthorizedIntent ==
    \A b \in BookingIds :
        bookings[b].status = "CANCELLED" =>
            \A r \in 1..Len(intents) :
                intents[r].booking_id = b => intents[r].status # "AUTHORIZED"

\* C29: the sweeper and the mutators of a booking serialize on the booking's row.
\* A step that makes a booking EXPIRED finds it committed PENDING_PAYMENT and
\* stale, while no mutator is between its read of the row and its commit; a
\* mutator that commits a status commits it onto the status it read; and no step
\* changes the status of an EXPIRED booking. So every interleaving of a sweep
\* with a webhook or a cancellation ends as one of the two serial orders does.
C29_SweeperSerializesWithMutators ==
    [][\A b \in BookingIds :
          /\ (bookings'[b].status = "EXPIRED" /\ bookings[b].status # "EXPIRED") =>
                /\ bookings[b].status = "PENDING_PAYMENT"
                /\ bookings[b].created_at < now - SweepAgeMinutes
                /\ \A q \in Reqs : ~(req[q].b = b /\ (req[q].lk \/ req[q].wbk.status # "NULL"))
          /\ \A q \in Reqs :
                (/\ req[q].b = b /\ req[q].wbk.status # "NULL"
                 /\ bookings'[b].status = req[q].wbk.status
                 /\ bookings'[b].status # bookings[b].status) =>
                    bookings[b].status = req[q].from
          /\ bookings[b].status = "EXPIRED" => bookings'[b].status = "EXPIRED"]_vars

\* The sweeper expired the booking between the two transactions of a webhook
\* handler, which has updated the intent and not yet read the booking.
C29_Witness ==
    \E b \in BookingIds : \E p \in Reqs :
        /\ bookings[b].status = "EXPIRED"
        /\ hist.change[b].op = "sweepExpiredBookings"
        /\ req[p].op = "handleIntentSuccess" /\ req[p].pc = "his_booking"

\* C30: every step that commits a change of a booking's status, by any operation
\* including the sweeper, appends exactly one booking_events row, which is of
\* that booking and records that change, so that the events of a booking are in
\* the order of its status changes.
C30_EveryStatusChangeHasItsEvent ==
    [][\A b \in BookingIds :
          bookings'[b].status # bookings[b].status =>
             /\ Len(events') = Len(events) + 1
             /\ events'[Len(events')].booking_id = b
             /\ events'[Len(events')].from = bookings[b].status
             /\ events'[Len(events')].to = bookings'[b].status]_vars

(***************************************************************************)
(* Properties of single calls: re-dispatch and the assigned provider.      *)
(***************************************************************************)
\* C31: when a providerCancelBooking has succeeded and is the last change of the
\* booking, an accept by a provider of the candidate list, the one who cancelled
\* or another, succeeds and leaves the booking ACCEPTED with provider_id equal to
\* that provider.
C31_AcceptAfterProviderCancel ==
    [][\A p, q \in Reqs :
          (/\ req[p].pc = "done" /\ req[p].op = "providerCancelBooking"
           /\ req[p].res = "ok"
           /\ hist.change[req[p].b].op = "providerCancelBooking"
           /\ req[q].pc # "done" /\ req'[q].pc = "done"
           /\ req'[q].op = "updateBookingStatus" /\ req'[q].to = "ACCEPTED"
           /\ req'[q].role = "Provider" /\ req'[q].b = req[p].b
           /\ req'[q].actor \in bookings[req[p].b].candidate_list) =>
              /\ req'[q].res = "ok"
              /\ bookings'[req[p].b].status = "ACCEPTED"
              /\ bookings'[req[p].b].provider_id = req'[q].actor]_vars

\* The provider who cancelled an EN_ROUTE booking has accepted it again.
C31_Witness ==
    \E p, q \in Reqs :
        /\ req[p].pc = "done" /\ req[p].op = "providerCancelBooking"
        /\ req[p].res = "ok" /\ req[p].from = "EN_ROUTE"
        /\ req[q].pc = "done" /\ req[q].op = "updateBookingStatus"
        /\ req[q].to = "ACCEPTED" /\ req[q].res = "ok"
        /\ req[q].actor = req[p].actor
        /\ bookings[req[p].b].status = "ACCEPTED"
        /\ bookings[req[p].b].provider_id = req[q].actor

\* C32: a booking in PENDING_PAYMENT or PAID_SEARCHING has no provider_id, and a
\* booking in ACCEPTED, EN_ROUTE, ARRIVED, IN_PROGRESS, COMPLETE_PENDING,
\* NEEDS_REVIEW or CLOSED has one.
C32_ProviderIdFollowsStatus ==
    \A b \in BookingIds :
        /\ bookings[b].status \in {"PENDING_PAYMENT", "PAID_SEARCHING"} =>
              bookings[b].provider_id = None
        /\ bookings[b].status \in ClaimedStates => bookings[b].provider_id # None

(***************************************************************************)
(* The engine called directly: the exported functions of logic/bookings.ts *)
(* with any arguments, on a booking at a point of its life. Each client    *)
(* makes one call and keeps the result.                                    *)
(***************************************************************************)
EngineStatusCall(p) ==
    \E b \in BookingIds : \E nextStatus \in BookingState : \E role \in UserRole :
    \E uid \in Callers(role) :
    \E otp \in IF nextStatus = "IN_PROGRESS" THEN Otps \cup {NoOtp} ELSE {NoOtp} :
        UbsSelect(p, b, nextStatus, role, uid, otp, TRUE)

NextEngine ==
    \/ \E p \in Reqs : EngineStatusCall(p)
    \/ \E p \in Reqs : UbsUpdate(p)
    \/ \E p \in Reqs : OneCancelCall(p)
    \/ \E p \in Reqs : CancelWrite(p)
    \/ \E p \in Reqs : OneProviderCancelCall(p)
    \/ \E p \in Reqs : OneFlagCall(p)
    \/ \E p \in Reqs : OneCompleteCall(p)
    \/ \E p \in Reqs : CompleteFind(p)
    \/ \E p \in Reqs : CompleteCapture(p)
    \/ \E p \in Reqs : TxCommit(p, TRUE)

SpecEngine == InitCalls /\ [][NextEngine]_vars

(***************************************************************************)
(* Properties of the read endpoints.                                       *)
(***************************************************************************)
\* C33: the response of GET /bookings/claimed to a provider is the same whatever
\* the otp of the bookings is: no row of it carries an otp.
C33_ClaimedListHidesOtp ==
    \A p \in DOMAIN req :
        (req[p].pc = "done" /\ req[p].op = "getProviderBookings") =>
            /\ \A row \in req[p].res.body : "otp" \notin DOMAIN row
            /\ \A otp \in Otps :
                  getProviderBookings([b \in DOMAIN bookings |->
                                          [bookings[b] EXCEPT !.otp = otp]],
                                      req[p].actor, req[p].to) = req[p].res.body

(***************************************************************************)
(* C34: the notification_outbox rows and the operations that write them.   *)
(***************************************************************************)
\* The number of rows of one type that a notification_outbox holds for b.
OutboxCount(q, b, type) ==
    Cardinality({i \in 1..Len(q) : q[i].booking_id = b /\ q[i].type = type})

\* The result with which the operation that writes a row of this type ends.
OutboxWriter(type) ==
    CASE type = "PROVIDER_CANCELLED" -> [op |-> "providerCancelBooking", res |-> "ok"]
      [] type = "ISSUE_FLAGGED"      -> [op |-> "flagIssue", res |-> "ok"]
      [] type = "CAPTURE_FAILED"     -> [op |-> "completeBooking", res |-> "CAPTURE_FAILED"]

OneWebhookCall(p) == \E ref \in 0..Len(intents) : handleIntentSuccess(p, ref, TRUE)

NextWebhook ==
    \/ \E p \in Reqs : OneWebhookCall(p)
    \/ \E p \in Reqs : HisUpdateBooking(p, TRUE)
    \/ \E p \in Reqs : HisCommitBooking(p)
    \/ \E p \in Reqs : HisCommitIntent(p, TRUE)
    \/ \E p \in Reqs : PayCall(p)
    \/ \E p \in Reqs : PayUpdateBooking(p)
    \/ \E p \in Reqs : OneCancelCall(p)
    \/ \E p \in Reqs : CancelWrite(p)
    \/ \E p \in Reqs : TxCommit(p, TRUE)

SpecWebhook == InitCalls /\ [][NextWebhook]_vars

\* C35: the step in which handleIntentSuccess commits its transaction changes
\* one intent, from CREATED to AUTHORIZED, and the call returns ok; a call whose
\* reference matches no intent returns the error "Payment intent not found" at
\* once, and a call that finds its booking in another status than
\* PENDING_PAYMENT returns an error instead of writing the booking; a call that
\* returns an error has changed neither the intents nor the booking.
C35_WebhookOnlyAuthorizesCreated ==
    [][\A p \in Reqs :
        LET his == req[p].op = "handleIntentSuccess" /\ req'[p] # req[p]
            failed == /\ req'[p].op = "handleIntentSuccess"
                      /\ req'[p].pc = "done"
                      /\ req'[p].res # "ok"
        IN /\ (his /\ req[p].pc = "his_commit1") =>
                /\ req'[p].pc = "done"
                /\ req'[p].res = "ok"
                /\ bookings' = bookings
                /\ \A r \in 1..Len(intents) :
                      intents'[r] # intents[r] =>
                          /\ r = req[p].ref
                          /\ intents[r].status = "CREATED"
                          /\ intents'[r].status = "AUTHORIZED"
           /\ (req[p].pc = "idle" /\ req'[p].op = "handleIntentSuccess"
                    /\ req'[p].pc = "done") =>
                /\ req'[p].res = "Payment intent not found"
                /\ req'[p].wint = {}
           /\ (his /\ req[p].pc = "his_booking") =>
                IF bookings[req[p].b].status = "PENDING_PAYMENT"
                THEN req'[p].pc = "his_commit2" /\ req'[p].wbk.status = "PAID_SEARCHING"
                ELSE failed
           /\ (his /\ req[p].pc = "his_commit2") =>
                /\ bookings[req[p].b].status = "PENDING_PAYMENT"
                /\ bookings'[req[p].b].status = "PAID_SEARCHING"
                /\ intents' = intents
           /\ (req[p].pc # "done" /\ failed) =>
                /\ req[p].pc \in {"idle", "his_booking"}
                /\ intents' = intents
                /\ bookings' = bookings
                /\ events' = events]_vars

\* C35 witness: one call has authorized the CREATED intent of a PENDING_PAYMENT
\* booking, and a second call for the same intent has returned an error and
\* left the intent AUTHORIZED and the booking PAID_SEARCHING.
C35_Witness ==
    \E p \in Reqs : \E q \in Reqs :
        /\ req[p].op = "handleIntentSuccess" /\ req[p].pc = "done"
        /\ req[p].res = "ok"
        /\ req[q].op = "handleIntentSuccess" /\ req[q].pc = "done"
        /\ req[q].res = "Invalid transition"
        /\ hist.change[req[q].b].op = "handleIntentSuccess"
        /\ bookings[req[q].b].status = "PAID_SEARCHING"
        /\ intents[1].status = "AUTHORIZED"
        /\ Len(events) = 1

\* C36: complete_pending_until is null (-1) in every status a booking has before
\* COMPLETE_PENDING; a step changes it only when it commits the transition
\* IN_PROGRESS -> COMPLETE_PENDING of completeBooking or of provider-complete,
\* from null to the time of the transition plus 30 minutes; every step that
\* makes a booking COMPLETE_PENDING sets it so, and every other step of every
\* operation leaves it as it is.
C36_GraceEndIsSetOnceOnEntering ==
    [][\A b \in BookingIds :
        LET old == bookings[b].complete_pending_until
            new == bookings'[b].complete_pending_until
            enters == /\ bookings[b].status # "COMPLETE_PENDING"
                      /\ bookings'[b].status = "COMPLETE_PENDING"
        IN /\ bookings[b].status \in {"NULL", "PENDING_PAYMENT", "PAID_SEARCHING",
                                      "ACCEPTED", "EN_ROUTE", "ARRIVED", "IN_PROGRESS",
                                      "EXPIRED"} => old = -1
           /\ new # old => enters
           /\ enters => /\ old = -1
                        /\ new = now + GraceMinutes
                        /\ bookings[b].status = "IN_PROGRESS"
                        /\ hist'.change[b].op \in {"completeBooking", "provider-complete"}]_vars

\* C36 witness: a booking that entered COMPLETE_PENDING at 0 has been flagged
\* and closed by the admin after the clock moved, and complete_pending_until
\* is still 30.
C36_Witness ==
    \E b \in BookingIds :
        /\ bookings[b].status = "CLOSED"
        /\ hist.change[b].from = "NEEDS_REVIEW"
        /\ bookings[b].complete_pending_until = GraceMinutes
        /\ bookings[b].updated_at > GraceMinutes

(***************************************************************************)
(* Every route, as in Spec, on bookings of a service of the catalogue or   *)
(* of an unknown service_id.                                               *)
(***************************************************************************)
InitFrame ==
    /\ bookings = [b \in BookingIds |-> NoBooking]
    /\ intents = <<>>
    /\ events = <<>>
    /\ outbox = <<>>
    /\ ledger = [e \in EventIds |-> None]
    /\ now = 0
    /\ config = [stripe |-> FALSE]
    /\ req = [p \in 1..NumRequests |-> IdleReq]
    /\ hist = NoHist

CreateAnyCall(p) ==
    /\ EventRoom
    /\ \E b \in BookingIds : \E service_id \in ServiceIds :
          createBookingOf(p, b, "u1", "1234", service_id)

NextFrame ==
    \/ \E p \in Reqs : CreateAnyCall(p)
    \/ \E p \in Reqs : PayCall(p)
    \/ \E p \in Reqs : PayUpdateBooking(p)
    \/ \E p \in Reqs : WebhookCall(p)
    \/ \E p \in Reqs : HisUpdateBooking(p, FALSE)
    \/ \E p \in Reqs : HisCommitBooking(p)
    \/ \E p \in Reqs : HisCommitIntent(p, FALSE)
    \/ \E p \in Reqs : StatusCall(p)
    \/ \E p \in Reqs : UbsUpdate(p)
    \/ \E p \in Reqs : CancelCall(p)
    \/ \E p \in Reqs : CancelWrite(p)
    \/ \E p \in Reqs : ProviderCancelCall(p)
    \/ \E p \in Reqs : FlagCall(p)
    \/ \E p \in Reqs : CompleteCall(p)
    \/ \E p \in Reqs : CompleteFind(p)
    \/ \E p \in Reqs : CompleteCapture(p)
    \/ \E p \in Reqs : ProviderCompleteCall(p)
    \/ \E p \in Reqs : ProviderCompleteUpdate(p, FALSE)
    \/ \E p \in Reqs : ConfirmCompleteCall(p)
    \/ \E p \in Reqs : ConfirmCompleteFind(p, FALSE)
    \/ \E p \in Reqs : ConfirmCompleteCapture(p, FALSE)
    \/ \E p \in Reqs : ConfirmCompleteClose(p, FALSE)
    \/ \E p \in Reqs : TxCommit(p, FALSE)
    \/ \E p \in Reqs : sweepExpiredBookings(p)
    \/ Tick

SpecFrame == InitFrame /\ [][NextFrame]_vars

\* C37: the step that creates a booking writes its otp, candidate_list,
\* customer_id, service_name_snapshot and price_snapshot_cents (the name and the
\* price of the service in the catalogue, or null), and no later step of any
\* operation changes one of the five columns.
C37_CreationColumnsAreNeverChanged ==
    [][\A b \in BookingIds :
        /\ bookings[b].status # "NULL" =>
              /\ bookings'[b].status # "NULL"
              /\ bookings'[b].otp = bookings[b].otp
              /\ bookings'[b].candidate_list = bookings[b].candidate_list
              /\ bookings'[b].customer_id = bookings[b].customer_id
              /\ bookings'[b].service_name_snapshot = bookings[b].service_name_snapshot
              /\ bookings'[b].price_snapshot_cents = bookings[b].price_snapshot_cents
        /\ (bookings[b].status = "NULL" /\ bookings'[b].status # "NULL") =>
              /\ bookings'[b].otp \in Otps
              /\ bookings'[b].candidate_list = CandidateList
              /\ bookings'[b].customer_id \in Customers
              /\ \E service_id \in ServiceIds :
                    /\ bookings'[b].service_name_snapshot = getServiceById(service_id).name
                    /\ bookings'[b].price_snapshot_cents
                            = getServiceById(service_id).price_cents]_vars

\* C37 witness: a booking of the seeded service has been paid, worked, completed
\* and closed, and still has the columns of its creation.
C37_Witness ==
    \E b \in BookingIds :
        /\ bookings[b].status = "CLOSED"
        /\ bookings[b].service_name_snapshot = "Blocked Drain"
        /\ bookings[b].price_snapshot_cents = SeededPriceCents
        /\ bookings[b].otp = "1234"
        /\ bookings[b].customer_id = "u1"
        /\ bookings[b].candidate_list = CandidateList
        /\ \E r \in 1..Len(intents) : /\ intents[r].amount_cents = SeededPriceCents
                                      /\ intents[r].status = "SUCCEEDED"

\* C38: a confirm-complete request that has returned after its capture moved
\* the booking's intent to SUCCEEDED (it went on to updateBookingStatus, whose
\* target it keeps) leaves the booking CLOSED, whatever flagIssue or another
\* confirm-complete did meanwhile.
C38_CapturedOnlyIfClosed ==
    \A p \in Reqs :
        (/\ req[p].op = "confirm-complete"
         /\ req[p].pc = "done"
         /\ req[p].to = "CLOSED"
         /\ \E r \in 1..Len(intents) : /\ intents[r].booking_id = req[p].b
                                       /\ intents[r].status = "SUCCEEDED")
            => bookings[req[p].b].status = "CLOSED"

\* C39: a step of POST /bookings/:id/pay that inserts a payment intent finds
\* the booking in PENDING_PAYMENT, and the step of /pay that updates the
\* booking row is the one that follows this insert, for the same booking: for
\* a booking in any other status /pay changes neither the booking row nor its
\* set of payment intents.
C39_PayOnlyWhilePendingPayment ==
    [][\A p \in Reqs :
        /\ (req[p].pc = "idle" /\ req'[p].op = "pay" /\ Len(intents') > Len(intents)) =>
              /\ intents'[Len(intents')].booking_id = req'[p].b
              /\ bookings[req'[p].b].status = "PENDING_PAYMENT"
        /\ (req[p].op = "pay" /\ req'[p] # req[p]) =>
              /\ intents' = intents
              /\ intents[req[p].ref].booking_id = req[p].b
              /\ \A b \in BookingIds \ {req[p].b} : bookings'[b] = bookings[b]]_vars

(***************************************************************************)
(* withTx (db.ts:32-45), statement by statement. Each of BEGIN, COMMIT and *)
(* ROLLBACK is an awaited client.query, which resolves or rejects; the     *)
(* callback writes through the client and returns a value or throws.       *)
(***************************************************************************)
\* What a callback does: whether it INSERTs a row through the client, and the
\* value it returns or the error it throws.
Callbacks ==
    [writes : BOOLEAN, kind : {"returns", "throws"}, value : {"v1", "v2"}]

\* A call that has neither returned nor thrown.
NoOutcome == [kind |-> "none", value |-> None]

\* A call of withTx that has not started.
NoTx ==
    [pc |-> "idle", callback |-> None, called |-> FALSE, wob |-> <<>>,
     stmts |-> <<>>, released |-> 0, error |-> None, out |-> NoOutcome]

InitTx ==
    /\ bookings = [b \in BookingIds |-> NoBooking]
    /\ intents = <<>>
    /\ events = <<>>
    /\ outbox = <<>>
    /\ ledger = [e \in EventIds |-> None]
    /\ now = 0
    /\ config = [stripe |-> FALSE]
    /\ req = [p \in 1..NumRequests |-> NoTx]
    /\ hist = NoHist

\* The row a callback inserts through the client, marked with its caller.
TxRow(p) == Notice("b1", "SYSTEM_ADMIN", <<"row of", p>>)

\* const client = await getPool().connect()
withTxConnect(p) ==
    /\ req[p].pc = "idle"
    /\ \E cb \in Callbacks :
          req' = [req EXCEPT ![p] = [NoTx EXCEPT !.pc = "begin", !.callback = cb]]
    /\ UNCHANGED <<bookings, intents, events, outbox, ledger, now, config, hist>>

\* await client.query('BEGIN'), inside the try block.
withTxBegin(p) ==
    /\ req[p].pc = "begin"
    /\ \E rejects \in BOOLEAN :
          req' = [req EXCEPT ![p] =
                [@ EXCEPT !.stmts = Append(@, "BEGIN"),
                          !.error = IF rejects THEN "begin rejected" ELSE None,
                          !.pc = IF rejects THEN "catch" ELSE "callback"]]
    /\ UNCHANGED <<bookings, intents, events, outbox, ledger, now, config, hist>>

\* const result = await callback(client)
withTxCallback(p) ==
    /\ req[p].pc = "callback"
    /\ LET cb == req[p].callback
       IN req' = [req EXCEPT ![p] =
                [@ EXCEPT !.called = TRUE,
                          !.wob = IF cb.writes THEN <<TxRow(p)>> ELSE <<>>,
                          !.error = IF cb.kind = "throws" THEN cb.value ELSE None,
                          !.pc = IF cb.kind = "throws" THEN "catch" ELSE "commit"]]
    /\ UNCHANGED <<bookings, intents, events, outbox, ledger, now, config, hist>>

\* await client.query('COMMIT'); return result. A COMMIT that resolves has
\* published the writes; one that rejects may or may not have.
withTxCommit(p) ==
    /\ req[p].pc = "commit"
    /\ \E rejects \in BOOLEAN : \E published \in BOOLEAN :
          /\ ~rejects => published
          /\ outbox' = IF published THEN outbox \o req[p].wob ELSE outbox
          /\ req' = [req EXCEPT ![p] =
                [@ EXCEPT !.stmts = Append(@, "COMMIT"),
                          !.wob = <<>>,
                          !.error = IF rejects THEN "commit rejected" ELSE None,
                          !.out = IF rejects THEN NoOutcome
                                  ELSE [kind |-> "returned",
                                        value |-> req[p].callback.value],
                          !.pc = IF rejects THEN "catch" ELSE "finally"]]
    /\ UNCHANGED <<bookings, intents, events, ledger, now, config, hist>>

\* catch (e) { await client.query('ROLLBACK'); throw e; }: a ROLLBACK that
\* rejects throws its own error out of the catch block.
withTxRollback(p) ==
    /\ req[p].pc = "catch"
    /\ \E rejects \in BOOLEAN :
          req' = [req EXCEPT ![p] =
                [@ EXCEPT !.stmts = Append(@, "ROLLBACK"),
                          !.wob = <<>>,
                          !.out = [kind |-> "thrown",
                                   value |-> IF rejects THEN "rollback rejected"
                                             ELSE req[p].error],
                          !.pc = "finally"]]
    /\ UNCHANGED <<bookings, intents, events, outbox, ledger, now, config, hist>>

\* finally { client.release(); }
withTxRelease(p) ==
    /\ req[p].pc = "finally"
    /\ req' = [req EXCEPT ![p] = [@ EXCEPT !.released = @ + 1, !.pc = "done"]]
    /\ UNCHANGED <<bookings, intents, events, outbox, ledger, now, config, hist>>

NextTx ==
    \/ \E p \in Reqs : withTxConnect(p)
    \/ \E p \in Reqs : withTxBegin(p)
    \/ \E p \in Reqs : withTxCallback(p)
    \/ \E p \in Reqs : withTxCommit(p)
    \/ \E p \in Reqs : withTxRollback(p)
    \/ \E p \in Reqs : withTxRelease(p)

SpecTx == InitTx /\ [][NextTx]_vars

\* C40: a call of withTx that has ended issued BEGIN first; when its callback
\* returned it issued COMMIT next and nothing else, and returned the callback's
\* value; when its callback threw it issued ROLLBACK next and nothing else, threw
\* the callback's error, and no row the callback wrote is in the table; it
\* released the connection once, and no call releases it before its end.
C40_WithTxCommitsOrRollsBack ==
    \A p \in Reqs :
        /\ req[p].pc # "done" => req[p].released = 0
        /\ req[p].pc = "done" =>
            /\ req[p].released = 1
            /\ req[p].stmts[1] = "BEGIN"
            /\ (req[p].called /\ req[p].callback.kind = "returns") =>
                  /\ req[p].stmts = <<"BEGIN", "COMMIT">>
                  /\ req[p].out = [kind |-> "returned", value |-> req[p].callback.value]
            /\ (req[p].called /\ req[p].callback.kind = "throws") =>
                  /\ req[p].stmts = <<"BEGIN", "ROLLBACK">>
                  /\ req[p].out = [kind |-> "thrown", value |-> req[p].callback.value]
                  /\ \A i \in 1..Len(outbox) : outbox[i] # TxRow(p)

====
